---- MODULE Spec2Model ----
(***************************************************************************)
(* A model of the pcpd API library (api/pcp.c): the mapping store kept in  *)
(* the Apteryx database under /pcp/mappings, the identifier allocator, and *)
(* the create / refresh / delete operations on mappings.                   *)
(*                                                                         *)
(* The database is modelled as a function from the mapping node id (the    *)
(* <index> of the path /pcp/mappings/<index>) to the keys stored below     *)
(* that node.  The value of the node itself is stored under SELF_KEY.      *)
(***************************************************************************)
EXTENDS Integers, Sequences, FiniteSets, TLC

VARIABLES
    db,       \* /pcp/mappings: node id -> (key -> stored value)
    now,      \* the wall clock, time (NULL)
    call,     \* the API call that returned last, with its arguments and result
    freed,    \* history: the indexes removed by pcp_mapping_delete so far
    req,      \* the API call in progress on the request thread (step semantics)
    nt,       \* the pcp_mapping_find in progress on the notification thread
    config,   \* pcpd: the global config struct
    main,     \* pcpd: the locals of main, with the datagrams of its last iteration
    conf,     \* the Apteryx database below /pcp/config: the value of each key set
    saved_cbs,      \* the registered callbacks, or the null handle
    callback_lock,  \* the thread that holds the mutex, or NoThread
    th,       \* the call of the callback section in progress on each thread
    watches,  \* whether the watches on the config and mapping paths are registered
    pending   \* the change notifications Apteryx has raised and not yet delivered

vars ==
    <<db, now, call, freed, req, nt, config, main, conf, saved_cbs, callback_lock, th,
      watches, pending>>

\* the state of the callback section of the library
lib == <<conf, saved_cbs, callback_lock, th, watches>>

----------------------------------------------------------------------------
(* Bounds of the model *)

StartTime == 1430000000   \* the clock reading in the initial state
MaxTicks == 1             \* how far the clock advances
MaxLive == 2              \* how many mapping nodes the database holds
MaxIndex == 20            \* the largest index a mapping is created with

MaxPending == 2           \* how many change notifications wait to be delivered

MaxClock == StartTime + MaxTicks

(* Program constants *)

INT_MAX == 2147483647
INT_MIN == (-INT_MAX) - 1
MAXIMUM_MAPPING_ID == INT_MAX
MAP_OPCODE == 1
PEER_OPCODE == 2
AUTO_INDEX == -1

PCP_VERSION == 2
PCP_MAP_REQUEST_SIZE == 60     \* sizeof (map_request), equal to sizeof (map_response)

\* packet_type
ANNOUNCE_REQUEST == 0
ANNOUNCE_RESPONSE == 1
MAP_REQUEST == 2
MAP_RESPONSE == 3
PEER_REQUEST == 4
PEER_RESPONSE == 5
UNDEFINED == 6

\* result_code
SUCCESS == 0
UNSUPP_VERSION == 1
UNSUPP_OPCODE == 4

INDEX_KEY == "index"
MAPPING_NONCE_1_KEY == "mapping_nonce_1"
MAPPING_NONCE_2_KEY == "mapping_nonce_2"
MAPPING_NONCE_3_KEY == "mapping_nonce_3"
INTERNAL_IP_KEY == "internal_ip"
INTERNAL_PORT_KEY == "internal_port"
EXTERNAL_IP_KEY == "external_ip"
EXTERNAL_PORT_KEY == "external_port"
LIFETIME_KEY == "lifetime"
START_OF_LIFE_KEY == "start_of_life"
END_OF_LIFE_KEY == "end_of_life"
OPCODE_KEY == "opcode"
PROTOCOL_KEY == "protocol"
SELF_KEY == ""            \* apteryx_set (path, ...) / apteryx_get_string (path, NULL)

NULL == "NULL"            \* the null char pointer returned for a missing value

----------------------------------------------------------------------------
(* Inputs *)

\* struct in6_addr values, as their eight 16-bit groups
ADDR_LOOPBACK == <<0, 0, 0, 0, 0, 0, 0, 1>>
ADDR_V4MAPPED == <<0, 0, 0, 0, 0, 65535, 49320, 1>>
ADDR_LINKLOCAL == <<65152, 0, 0, 0, 0, 0, 0, 2>>
ADDR_GLOBAL == <<8193, 3512, 0, 0, 0, 0, 0, 7>>

In6Addrs == {ADDR_LOOPBACK, ADDR_V4MAPPED, ADDR_LINKLOCAL, ADDR_GLOBAL}

\* the argument tuples pcp_mapping_add is called with (all but index and lifetime)
MapRequest ==
    [mapping_nonce |-> <<11, 12, 13>>,
     internal_ip |-> ADDR_V4MAPPED, internal_port |-> 4000,
     external_ip |-> ADDR_GLOBAL, external_port |-> 4321,
     opcode |-> MAP_OPCODE, protocol |-> 6]

PeerRequest ==
    [mapping_nonce |-> <<21, 22, 23>>,
     internal_ip |-> ADDR_LINKLOCAL, internal_port |-> 5000,
     external_ip |-> ADDR_LOOPBACK, external_port |-> 5321,
     opcode |-> PEER_OPCODE, protocol |-> 17]

Requests == {MapRequest, PeerRequest}

NoRequest ==
    [mapping_nonce |-> <<0, 0, 0>>,
     internal_ip |-> ADDR_LOOPBACK, internal_port |-> 0,
     external_ip |-> ADDR_LOOPBACK, external_port |-> 0,
     opcode |-> 0, protocol |-> 0]

Lifetimes == {0, 2}

\* new_end_of_life - (time (NULL) + new_lifetime) of the refresh calls
Deviations == {-4, -3, 0, 1, 3, 4}

\* the arguments of the calls when the lease times are explored: the index and
\* the request of the adds, the index of the refreshes, the index of the other calls
LeaseAdds == {<<-1, PeerRequest>>, <<10, MapRequest>>}
LeaseIndexes == {10, 20}
RefreshIndexes == {10}

\* the arguments of the calls when the single database accesses are interleaved
StepIndex == 10
StepRequest == MapRequest

\* the index arguments of the calls when the allocation of indexes is explored
ExplicitIndexes == {-2, 10, 15}

\* the index arguments of the calls when the order of the enumeration is explored
ExtremeIndexes == {-2, 10, INT_MAX}
Indexes == ExplicitIndexes \cup {10, 20}
\* the index and the request of the adds: every explicit index and the auto
\* sentinel, index 15 with either request
AllocAdds ==
    {<<AUTO_INDEX, PeerRequest>>, <<15, PeerRequest>>} \cup
    {<<index, MapRequest>> : index \in ExplicitIndexes}
AllocLifetime == 2

----------------------------------------------------------------------------
(* C integer arithmetic *)

\* a % b of C for b > 0: the remainder has the sign of a
CRem(a, b) == IF a >= 0 THEN a % b ELSE -((b - (a % b)) % b)

\* a + b on a 32-bit int for 0 <= b, wrapping past INT_MAX
Int32Add(a, b) == IF a > INT_MAX - b THEN INT_MIN + ((a - INT_MAX) + (b - 1)) ELSE a + b

\* a u_int32_t, as its two 16-bit halves <<high, low>>
HALF == 65536

\* (u_int32_t) x for an int x: the same 32 bits
IntToU32(x) ==
    IF x >= 0 THEN <<x \div HALF, x % HALF>>
    ELSE <<((x - INT_MIN) \div HALF) + (HALF \div 2), (x - INT_MIN) % HALF>>

\* (int) u for a u_int32_t u: the same 32 bits
U32ToInt(u) ==
    IF u[1] < HALF \div 2 THEN (u[1] * HALF) + u[2]
    ELSE INT_MIN + (((u[1] - (HALF \div 2)) * HALF) + u[2])

\* a + b of two u_int32_t without the loss of the carry: the high half may pass HALF
WideAdd(a, b) == <<(a[1] + b[1]) + ((a[2] + b[2]) \div HALF), (a[2] + b[2]) % HALF>>

\* a + b on u_int32_t, wrapping past 2^32 - 1
U32Add(a, b) == <<WideAdd(a, b)[1] % HALF, WideAdd(a, b)[2]>>

\* a - b on u_int32_t, wrapping below 0
U32Sub(a, b) ==
    LET borrow == IF a[2] < b[2] THEN 1 ELSE 0
    IN <<(((a[1] - b[1]) - borrow) + HALF) % HALF, ((a[2] - b[2]) + HALF) % HALF>>

\* a < b on u_int32_t, and on sums that kept their carry
U32Less(a, b) == a[1] < b[1] \/ (a[1] = b[1] /\ a[2] < b[2])


----------------------------------------------------------------------------
(* inet_ntop / inet_pton (AF_INET6) on the addresses used *)

inet_ntop(addr) ==
    CASE addr = ADDR_LOOPBACK -> "::1"
      [] addr = ADDR_V4MAPPED -> "::ffff:192.168.0.1"
      [] addr = ADDR_LINKLOCAL -> "fe80::2"
      [] addr = ADDR_GLOBAL -> "2001:db8::7"

inet_pton(str) == CHOOSE addr \in In6Addrs : inet_ntop(addr) = str

----------------------------------------------------------------------------
(* The Apteryx database below /pcp/mappings *)

HasValue(d, id, key) == id \in DOMAIN d /\ key \in DOMAIN d[id]

apteryx_set(d, id, key, value) ==
    IF id \in DOMAIN d
    THEN [d EXCEPT ![id] = [k \in (DOMAIN @) \cup {key} |-> IF k = key THEN value ELSE @[k]]]
    ELSE [i \in (DOMAIN d) \cup {id} |-> IF i = id THEN [k \in {key} |-> value] ELSE d[i]]

apteryx_set_int(d, id, key, value) == apteryx_set(d, id, key, value)

apteryx_get_int(d, id, key) == IF HasValue(d, id, key) THEN d[id][key] ELSE -1

apteryx_get_string(d, id, key) == IF HasValue(d, id, key) THEN d[id][key] ELSE NULL

apteryx_set_ipv6_addr(d, id, key, value) == apteryx_set(d, id, key, inet_ntop(value))

\* the value is returned uninitialised when the key is missing
apteryx_get_ipv6_addr(d, id, key, uninit) ==
    IF HasValue(d, id, key) THEN inet_pton(d[id][key]) ELSE uninit

\* the paths directly below /pcp/mappings/
apteryx_search(d) == DOMAIN d

apteryx_prune(d, id) == [i \in (DOMAIN d) \ {id} |-> d[i]]

apteryx_prune_all(d) == [i \in {} |-> d[i]]

EmptyDb == [i \in {} |-> i]

\* the database below /pcp/config without any value
EmptyConf == [key \in {} |-> 0]

ROOT_PATH == "/pcp"
MAPPING_PATH == "/pcp/mappings"
CONFIG_PATH == "/pcp/config"

\* apteryx_prune (path) for one of these paths, on the mappings d and the
\* configuration c: what is left of each
apteryx_prune_path(path, d, c) ==
    [db |-> IF path \in {ROOT_PATH, MAPPING_PATH} THEN apteryx_prune_all(d) ELSE d,
     conf |-> IF path \in {ROOT_PATH, CONFIG_PATH} THEN EmptyConf ELSE c]

----------------------------------------------------------------------------
(* Mapping lookup *)

\* as mapping_exists, taking a mapping whose end of life has passed for absent
mapping_exists_unexpired(d, mapping_id) ==
    /\ apteryx_get_string(d, mapping_id, SELF_KEY) # NULL
    /\ apteryx_get_int(d, mapping_id, END_OF_LIFE_KEY) > now

\* pcp_mapping_find returns non-NULL: the mapping node has a value
mapping_exists(d, mapping_id) == apteryx_get_string(d, mapping_id, SELF_KEY) # NULL

\* the struct pcp_mapping_find allocates, with its index set and nothing read yet
new_mapping(mapping_id) ==
    [index |-> mapping_id,
     mapping_nonce |-> <<0, 0, 0>>,
     internal_ip |-> ADDR_LOOPBACK, internal_port |-> 0,
     external_ip |-> ADDR_LOOPBACK, external_port |-> 0,
     lifetime |-> 0, start_of_life |-> 0, end_of_life |-> 0,
     opcode |-> 0, protocol |-> 0]

\* the number of database reads pcp_mapping_find makes to fill in the struct
FIND_READS == 12

\* the struct m after the k-th of these reads, made on the database d
find_read(m, d, k, uninit) ==
    CASE k = 1 -> [m EXCEPT !.mapping_nonce[1] = apteryx_get_int(d, m.index, MAPPING_NONCE_1_KEY)]
      [] k = 2 -> [m EXCEPT !.mapping_nonce[2] = apteryx_get_int(d, m.index, MAPPING_NONCE_2_KEY)]
      [] k = 3 -> [m EXCEPT !.mapping_nonce[3] = apteryx_get_int(d, m.index, MAPPING_NONCE_3_KEY)]
      [] k = 4 -> [m EXCEPT !.internal_ip = apteryx_get_ipv6_addr(d, m.index, INTERNAL_IP_KEY, uninit)]
      [] k = 5 -> [m EXCEPT !.internal_port = apteryx_get_int(d, m.index, INTERNAL_PORT_KEY)]
      [] k = 6 -> [m EXCEPT !.external_ip = apteryx_get_ipv6_addr(d, m.index, EXTERNAL_IP_KEY, uninit)]
      [] k = 7 -> [m EXCEPT !.external_port = apteryx_get_int(d, m.index, EXTERNAL_PORT_KEY)]
      [] k = 8 -> [m EXCEPT !.lifetime = apteryx_get_int(d, m.index, LIFETIME_KEY)]
      [] k = 9 -> [m EXCEPT !.start_of_life = apteryx_get_int(d, m.index, START_OF_LIFE_KEY)]
      [] k = 10 -> [m EXCEPT !.end_of_life = apteryx_get_int(d, m.index, END_OF_LIFE_KEY)]
      [] k = 11 -> [m EXCEPT !.opcode = apteryx_get_int(d, m.index, OPCODE_KEY)]
      [] k = 12 -> [m EXCEPT !.protocol = apteryx_get_int(d, m.index, PROTOCOL_KEY)]

\* the struct pcp_mapping_find returns when nothing is written during its reads
\* (meaningful when mapping_exists): the struct after all of the reads
pcp_mapping_find(d, mapping_id, uninit) ==
    [index |-> mapping_id,
     mapping_nonce |-> <<apteryx_get_int(d, mapping_id, MAPPING_NONCE_1_KEY),
                         apteryx_get_int(d, mapping_id, MAPPING_NONCE_2_KEY),
                         apteryx_get_int(d, mapping_id, MAPPING_NONCE_3_KEY)>>,
     internal_ip |-> apteryx_get_ipv6_addr(d, mapping_id, INTERNAL_IP_KEY, uninit),
     internal_port |-> apteryx_get_int(d, mapping_id, INTERNAL_PORT_KEY),
     external_ip |-> apteryx_get_ipv6_addr(d, mapping_id, EXTERNAL_IP_KEY, uninit),
     external_port |-> apteryx_get_int(d, mapping_id, EXTERNAL_PORT_KEY),
     lifetime |-> apteryx_get_int(d, mapping_id, LIFETIME_KEY),
     start_of_life |-> apteryx_get_int(d, mapping_id, START_OF_LIFE_KEY),
     end_of_life |-> apteryx_get_int(d, mapping_id, END_OF_LIFE_KEY),
     opcode |-> apteryx_get_int(d, mapping_id, OPCODE_KEY),
     protocol |-> apteryx_get_int(d, mapping_id, PROTOCOL_KEY)]

\* the indexes of the live mappings
Live(d) == {id \in apteryx_search(d) : mapping_exists(d, id)}

Mapping(d, id) == pcp_mapping_find(d, id, ADDR_LOOPBACK)

NoMapping == Mapping(EmptyDb, 0)

----------------------------------------------------------------------------
(* Identifier allocator *)

\* as current_highest_index, with the comparison of the loop reversed
current_highest_index_lowest(d) ==
    LET ids == {apteryx_get_int(d, path, INDEX_KEY) : path \in apteryx_search(d)} \cup {0}
    IN CHOOSE max \in ids : \A index_id \in ids : index_id >= max

current_highest_index(d) ==
    LET ids == {apteryx_get_int(d, path, INDEX_KEY) : path \in apteryx_search(d)} \cup {0}
    IN CHOOSE max \in ids : \A index_id \in ids : index_id <= max

\* as next_highest_id, adding 1 instead of 11 before rounding down
next_highest_id_plus1(d) ==
    LET max_index == Int32Add(current_highest_index(d), 1)
        index == max_index - CRem(max_index, 10)
    IN IF index > MAXIMUM_MAPPING_ID THEN -1 ELSE index

next_highest_id(d) ==
    LET max_index == Int32Add(current_highest_index(d), 11)
        index == max_index - CRem(max_index, 10)
    IN IF index > MAXIMUM_MAPPING_ID THEN -1 ELSE index

next_mapping_id(d) == next_highest_id(d)

----------------------------------------------------------------------------
(* Enumeration of the mappings and the time a mapping has left *)

\* a - b on a 32-bit int, wrapping
Int32Sub(a, b) ==
    IF b > 0 /\ a < INT_MIN + b THEN ((a - INT_MIN) + (INT_MAX - b)) + 1
    ELSE IF b < 0 /\ a > INT_MAX + b THEN ((a - INT_MAX) + (INT_MIN - b)) - 1
    ELSE a - b

\* characters, as their codes
CHAR_SLASH == 47
CHAR_MINUS == 45
CHAR_PLUS == 43
CHAR_ZERO == 48

RECURSIVE DecimalDigits(_)
DecimalDigits(n) ==
    IF n < 10 THEN <<CHAR_ZERO + n>>
    ELSE Append(DecimalDigits(n \div 10), CHAR_ZERO + (n % 10))

\* asprintf (&path, MAPPING_PATH "/%d", index), from the last slash on
mapping_path(index) ==
    <<CHAR_SLASH>> \o (IF index < 0 THEN <<CHAR_MINUS>> \o DecimalDigits(-index)
                        ELSE DecimalDigits(index))

\* strrchr (path, '/'), then ++tmp: the characters after the last slash
RECURSIVE after_last_slash(_)
after_last_slash(path) ==
    IF \A i \in 1 .. Len(path) : path[i] # CHAR_SLASH THEN path
    ELSE after_last_slash(Tail(path))

\* the value of the leading decimal digits of str, added to acc
RECURSIVE atoi_digits(_, _)
atoi_digits(str, acc) ==
    IF str = <<>> \/ Head(str) < CHAR_ZERO \/ Head(str) > CHAR_ZERO + 9 THEN acc
    ELSE atoi_digits(Tail(str), (acc * 10) + (Head(str) - CHAR_ZERO))

atoi(str) ==
    IF str # <<>> /\ Head(str) = CHAR_MINUS THEN -atoi_digits(Tail(str), 0)
    ELSE IF str # <<>> /\ Head(str) = CHAR_PLUS THEN atoi_digits(Tail(str), 0)
    ELSE atoi_digits(str, 0)

\* the orders in which apteryx_search may list the paths below /pcp/mappings/
SearchOrders(d) ==
    LET n == Cardinality(apteryx_search(d))
    IN {[i \in 1 .. n |-> mapping_path(order[i])] :
           order \in {o \in [1 .. n -> apteryx_search(d)] :
                         \A id \in apteryx_search(d) : \E i \in 1 .. n : o[i] = id}}

mapping_index_cmp(a, b) == Int32Sub(a.index, b.index)

\* g_list_insert_sorted (list, data, mapping_index_cmp): data goes in front of the
\* first element it does not compare greater than
RECURSIVE g_list_insert_sorted(_, _)
g_list_insert_sorted(list, data) ==
    IF list = <<>> THEN <<data>>
    ELSE IF mapping_index_cmp(data, Head(list)) <= 0 THEN <<data>> \o list
    ELSE <<Head(list)>> \o g_list_insert_sorted(Tail(list), data)

\* the loop of pcp_mapping_getall over the paths left, mappings being the list so far
RECURSIVE getall_from(_, _, _)
getall_from(d, paths, mappings) ==
    IF paths = <<>> THEN mappings
    ELSE LET id == atoi(after_last_slash(Head(paths)))
         IN getall_from(d, Tail(paths),
                        IF mapping_exists(d, id)
                        THEN g_list_insert_sorted(mappings, Mapping(d, id))
                        ELSE mappings)

\* paths is the result of apteryx_search (MAPPING_PATH "/")
pcp_mapping_getall(d, paths) == getall_from(d, paths, <<>>)

\* a pcp_mapping pointer: <<>> is NULL, <<m>> points to the struct m
NullMapping == <<>>

find_result(d, mapping_id) ==
    IF mapping_exists(d, mapping_id) THEN <<Mapping(d, mapping_id)>> ELSE NullMapping

\* as remaining_lifetime, returning the lifetime of a mapping that has not expired
remaining_lifetime_whole(mapping, t) ==
    IF mapping = NullMapping \/ mapping[1].end_of_life <= t THEN 0
    ELSE mapping[1].lifetime

\* pcp_mapping_remaining_lifetime_get; t is the reading of time (NULL)
remaining_lifetime(mapping, t) ==
    IF mapping = NullMapping \/ mapping[1].end_of_life <= t THEN 0
    ELSE mapping[1].end_of_life - t

----------------------------------------------------------------------------
(* The database writes of the operations, in program order *)

\* as add_writes, storing the lifetime under the index key
add_writes_index_key(index, a, lifetime, t1, t2) ==
    << <<INDEX_KEY, lifetime>>,
       <<MAPPING_NONCE_1_KEY, a.mapping_nonce[1]>>,
       <<MAPPING_NONCE_2_KEY, a.mapping_nonce[2]>>,
       <<MAPPING_NONCE_3_KEY, a.mapping_nonce[3]>>,
       <<INTERNAL_IP_KEY, inet_ntop(a.internal_ip)>>,
       <<INTERNAL_PORT_KEY, a.internal_port>>,
       <<EXTERNAL_IP_KEY, inet_ntop(a.external_ip)>>,
       <<EXTERNAL_PORT_KEY, a.external_port>>,
       <<LIFETIME_KEY, lifetime>>,
       <<START_OF_LIFE_KEY, t1>>,
       <<END_OF_LIFE_KEY, t2 + lifetime>>,
       <<OPCODE_KEY, a.opcode>>,
       <<PROTOCOL_KEY, a.protocol>>,
       <<SELF_KEY, "-">> >>

\* pcp_mapping_add; t1 and t2 are the two readings of time (NULL)
add_writes(index, a, lifetime, t1, t2) ==
    << <<INDEX_KEY, index>>,
       <<MAPPING_NONCE_1_KEY, a.mapping_nonce[1]>>,
       <<MAPPING_NONCE_2_KEY, a.mapping_nonce[2]>>,
       <<MAPPING_NONCE_3_KEY, a.mapping_nonce[3]>>,
       <<INTERNAL_IP_KEY, inet_ntop(a.internal_ip)>>,
       <<INTERNAL_PORT_KEY, a.internal_port>>,
       <<EXTERNAL_IP_KEY, inet_ntop(a.external_ip)>>,
       <<EXTERNAL_PORT_KEY, a.external_port>>,
       <<LIFETIME_KEY, lifetime>>,
       <<START_OF_LIFE_KEY, t1>>,
       <<END_OF_LIFE_KEY, t2 + lifetime>>,
       <<OPCODE_KEY, a.opcode>>,
       <<PROTOCOL_KEY, a.protocol>>,
       <<SELF_KEY, "-">> >>

\* as refresh_writes, restarting the lease: start of life is moved as well
refresh_writes_restart(new_lifetime, new_end_of_life) ==
    << <<LIFETIME_KEY, new_lifetime>>,
       <<START_OF_LIFE_KEY, new_end_of_life - new_lifetime>>,
       <<END_OF_LIFE_KEY, new_end_of_life>> >>

\* pcp_mapping_refresh_lifetime
refresh_writes(new_lifetime, new_end_of_life) ==
    << <<LIFETIME_KEY, new_lifetime>>,
       <<END_OF_LIFE_KEY, new_end_of_life>> >>

RECURSIVE ApplyWrites(_, _, _)
ApplyWrites(d, id, writes) ==
    IF writes = <<>> THEN d
    ELSE ApplyWrites(apteryx_set(d, id, Head(writes)[1], Head(writes)[2]), id, Tail(writes))

\* as refresh_rejected, with the bounds themselves rejected
refresh_rejected_strict(t, new_lifetime, new_end_of_life) ==
    LET expected == t + new_lifetime
    IN new_end_of_life <= expected - 3 \/ new_end_of_life >= expected + 3

\* as refresh_rejected, with a tolerance of 4 seconds
refresh_rejected_wide(t, new_lifetime, new_end_of_life) ==
    LET expected == t + new_lifetime
    IN new_end_of_life < expected - 4 \/ new_end_of_life > expected + 4

\* the sanity check of pcp_mapping_refresh_lifetime on its end of life argument;
\* a u_int32_t argument is given as the int of the same 32 bits, the value that
\* apteryx_set_int is passed, and the arithmetic is that of u_int32_t
refresh_rejected(t, new_lifetime, new_end_of_life) ==
    LET expected == U32Add(IntToU32(t), IntToU32(new_lifetime))
    IN \/ U32Less(IntToU32(new_end_of_life), U32Sub(expected, IntToU32(3)))
       \/ U32Less(U32Add(expected, IntToU32(3)), IntToU32(new_end_of_life))

----------------------------------------------------------------------------
(* The record of the call that returned last *)

Call(op, index, id, a, lifetime, end_of_life, at, ret) ==
    [op |-> op, index |-> index, id |-> id, a |-> a, lifetime |-> lifetime,
     end_of_life |-> end_of_life, at |-> at, ret |-> ret]

NoCall == Call("none", 0, 0, NoRequest, 0, 0, 0, FALSE)

\* the request thread between two calls, before its first call
ReqIdle ==
    [op |-> "idle", index |-> 0, lifetime |-> 0, end_of_life |-> 0,
     mapping |-> new_mapping(0), pc |-> 0, ret |-> FALSE]

\* the notification thread before its first pcp_mapping_find
NtIdle == [op |-> "idle", pc |-> 0, mapping |-> new_mapping(0)]

----------------------------------------------------------------------------
(* The API operations, each run to completion (backing store available) *)

\* as pcp_mapping_add, without the check that the index is not in use
pcp_mapping_add_unchecked(index, a, lifetime, t2) ==
    LET id == IF index = AUTO_INDEX THEN next_mapping_id(db) ELSE index
        fails == index = AUTO_INDEX /\ id < 0
    IN /\ IF fails
          THEN /\ t2 = now
               /\ db' = db
          ELSE /\ Cardinality(DOMAIN db) <= MaxLive
               /\ id <= MaxIndex \/ id >= MAXIMUM_MAPPING_ID - MaxIndex
               /\ db' = ApplyWrites(db, id, add_writes(id, a, lifetime, now, t2))
       /\ now' = t2
       /\ call' = Call("add", index, id, a, lifetime, 0, now, ~fails)
       /\ UNCHANGED <<req, nt, config, main, lib>>

\* t2 is the second reading of the clock; the first one is now
pcp_mapping_add(index, a, lifetime, t2) ==
    LET id == IF index = AUTO_INDEX THEN next_mapping_id(db) ELSE index
        fails == (index = AUTO_INDEX /\ id < 0) \/ mapping_exists(db, id)
    IN /\ IF fails
          THEN /\ t2 = now
               /\ db' = db
          ELSE /\ Cardinality(DOMAIN db) < MaxLive
               /\ id <= MaxIndex \/ id >= MAXIMUM_MAPPING_ID - MaxIndex
               /\ db' = ApplyWrites(db, id, add_writes(id, a, lifetime, now, t2))
       /\ now' = t2
       /\ call' = Call("add", index, id, a, lifetime, 0, now, ~fails)
       /\ UNCHANGED <<req, nt, config, main, lib>>

pcp_mapping_refresh_lifetime(index, new_lifetime, new_end_of_life) ==
    LET rejected == refresh_rejected(now, new_lifetime, new_end_of_life)
        ok == ~rejected /\ mapping_exists(db, index)
    IN /\ db' = IF ok
                THEN ApplyWrites(db, index, refresh_writes(new_lifetime, new_end_of_life))
                ELSE db
       /\ call' = Call("refresh", index, index, NoRequest, new_lifetime, new_end_of_life,
                       now, ok)
       /\ UNCHANGED <<now, req, nt, config, main, lib>>

\* as pcp_mapping_delete, pruning /pcp/mappings instead of the path of the mapping
pcp_mapping_delete_prune_all(index) ==
    LET found == mapping_exists(db, index)
    IN /\ db' = IF found THEN apteryx_prune_all(db) ELSE db
       /\ call' = Call("delete", index, index, NoRequest, 0, 0, now, found)
       /\ UNCHANGED <<now, req, nt, config, main, lib>>

\* as pcp_mapping_delete, without the check that the mapping exists
pcp_mapping_delete_unchecked(index) ==
    /\ db' = apteryx_prune(db, index)
    /\ call' = Call("delete", index, index, NoRequest, 0, 0, now, TRUE)
    /\ UNCHANGED <<now, req, nt, config, main, lib>>

pcp_mapping_delete(index) ==
    LET found == mapping_exists(db, index)
    IN /\ db' = IF found THEN apteryx_prune(db, index) ELSE db
       /\ call' = Call("delete", index, index, NoRequest, 0, 0, now, found)
       /\ UNCHANGED <<now, req, nt, config, main, lib>>

\* the writes among those given that the database takes: all but the failed ones
taken(writes, failed) ==
    LET numbered == [i \in 1 .. Len(writes) |-> <<i, writes[i]>>]
        left == SelectSeq(numbered, LAMBDA w : w[1] \notin failed)
    IN [i \in 1 .. Len(left) |-> left[i][2]]

\* pcp_mapping_add when the writes numbered in failed return false: the result of
\* no apteryx_set is looked at, and the function returns true after the last one
pcp_mapping_add_failing(index, a, lifetime, failed) ==
    LET id == IF index = AUTO_INDEX THEN next_mapping_id(db) ELSE index
        fails == (index = AUTO_INDEX /\ id < 0) \/ mapping_exists(db, id)
    IN /\ IF fails
          THEN db' = db
          ELSE /\ Cardinality(DOMAIN db) < MaxLive
               /\ id <= MaxIndex \/ id >= MAXIMUM_MAPPING_ID - MaxIndex
               /\ db' = ApplyWrites(db, id,
                                    taken(add_writes(id, a, lifetime, now, now), failed))
       /\ call' = Call("add", index, id, a, lifetime, 0, now, ~fails)
       /\ UNCHANGED <<now, req, nt, config, main, lib>>

\* pcp_mapping_delete when apteryx_prune returns pruned: its result is not looked
\* at, and the function returns true when the mapping was found
pcp_mapping_delete_failing(index, pruned) ==
    LET found == mapping_exists(db, index)
    IN /\ db' = IF found /\ pruned THEN apteryx_prune(db, index) ELSE db
       /\ call' = Call("delete", index, index, NoRequest, 0, 0, now, found)
       /\ UNCHANGED <<now, req, nt, config, main, lib>>

\* the prune of pcp_mapping_deleteall, at the path given
deleteall_prune(path) ==
    /\ db' = apteryx_prune_path(path, db, conf).db
    /\ conf' = apteryx_prune_path(path, db, conf).conf
    /\ call' = Call("deleteall", 0, 0, NoRequest, 0, 0, now, TRUE)

\* as pcp_mapping_deleteall, pruning /pcp as pcp_deinit_hard does
pcp_mapping_deleteall_root ==
    /\ deleteall_prune(ROOT_PATH)
    /\ UNCHANGED <<now, req, nt, config, main, saved_cbs, callback_lock, th, watches>>

pcp_mapping_deleteall ==
    /\ deleteall_prune(MAPPING_PATH)
    /\ UNCHANGED <<now, req, nt, config, main, saved_cbs, callback_lock, th, watches>>

\* pcp_deinit: pcp_mapping_deleteall, its result ignored, and apteryx_shutdown
pcp_deinit ==
    /\ deleteall_prune(MAPPING_PATH)
    /\ UNCHANGED <<now, req, nt, config, main, saved_cbs, callback_lock, watches>>

\* pcp_deinit_hard: all of /pcp is pruned
pcp_deinit_hard ==
    /\ db' = apteryx_prune_path(ROOT_PATH, db, conf).db
    /\ conf' = apteryx_prune_path(ROOT_PATH, db, conf).conf
    /\ call' = NoCall
    /\ UNCHANGED <<now, req, nt, config, main, saved_cbs, callback_lock, th, watches>>

\* the record of a call that changes nothing and returns value; end_of_life is
\* the end of life of the mapping the call was given
Answer(op, index, end_of_life, value) ==
    [op |-> op, index |-> index, id |-> index, a |-> NoRequest, lifetime |-> 0,
     end_of_life |-> end_of_life, at |-> now, ret |-> TRUE, value |-> value]

find_returns(index) ==
    /\ call' = Answer("find", index, 0, find_result(db, index))
    /\ UNCHANGED <<db, now, req, nt, config, main, lib>>

getall_returns(paths) ==
    /\ call' = Answer("getall", 0, 0, pcp_mapping_getall(db, paths))
    /\ UNCHANGED <<db, now, req, nt, config, main, lib>>

\* pcp_mapping_remaining_lifetime_get on the result of pcp_mapping_find (index)
remaining_lifetime_returns(index) ==
    LET mapping == find_result(db, index)
    IN /\ call' = Answer("remaining_lifetime", index,
                         IF mapping = NullMapping THEN 0 ELSE mapping[1].end_of_life,
                         remaining_lifetime(mapping, now))
       /\ UNCHANGED <<db, now, req, nt, config, main, lib>>

\* the clock advances between calls
Tick ==
    /\ now < MaxClock
    /\ now' = now + 1
    /\ call' = NoCall
    /\ UNCHANGED <<db, req, nt, config, main, lib>>

----------------------------------------------------------------------------
(* pcpd: the configuration callbacks and the loop of main *)

R_REQUEST(opcode) == IF opcode >= 128 THEN opcode - 128 ELSE opcode

R_RESPONSE(opcode) == IF opcode >= 128 THEN opcode ELSE opcode + 128

\* the global config struct before any callback has run: all zero
ZeroConfig ==
    [pcp_enabled |-> FALSE, map_support |-> FALSE, peer_support |-> FALSE,
     third_party_support |-> FALSE, proxy_support |-> FALSE,
     upnp_igd_pcp_iwf_support |-> FALSE,
     min_mapping_lifetime |-> 0, max_mapping_lifetime |-> 0,
     prefer_failure_req_rate_limit |-> 0]

\* The packet buffer, as the fields that a request and a response keep at the
\* same offsets: version (byte 0), r_opcode (1), result_code (3, reserved in a
\* request), lifetime (4-7), mapping_nonce (24-35), protocol (36), internal_port
\* (40-41), external_port (42-43), external_ip (44-59).
\* The fields wider than a byte are in network byte order, as their bytes.
htons(x) == <<x \div 256, x % 256>>

ntohs(bytes) == (bytes[1] * 256) + bytes[2]

htonl(x) == <<x \div 16777216, (x \div 65536) % 256, (x \div 256) % 256, x % 256>>

ntohl(bytes) == (((((bytes[1] * 256) + bytes[2]) * 256) + bytes[3]) * 256) + bytes[4]

Packet(version, r_opcode, result_code, lifetime, a) ==
    [version |-> version, r_opcode |-> r_opcode, result_code |-> result_code,
     lifetime |-> htonl(lifetime),
     mapping_nonce |-> [i \in 1 .. 3 |-> htonl(a.mapping_nonce[i])],
     protocol |-> a.protocol,
     internal_port |-> htons(a.internal_port), external_port |-> htons(a.external_port),
     external_ip |-> inet_ntop(a.external_ip)]

\* what pkt_buf, which main does not initialise, may hold before the first datagram
UninitBuffers ==
    {Packet(0, 0, 0, 0, NoRequest),
     Packet(PCP_VERSION, R_REQUEST(MAP_OPCODE), 0, 7200, PeerRequest)}

\* a datagram: its length and the request it carries (all of it when the length
\* is the size of a MAP request, the first two bytes when the length is 2)
Datagram(length, version, r_opcode, requested_lifetime) ==
    [length |-> length, data |-> Packet(version, r_opcode, 0, requested_lifetime, MapRequest)]

NoDatagram == Datagram(0, 0, 0, 0)

DatagramLengths == {2, PCP_MAP_REQUEST_SIZE}
Versions == {1, PCP_VERSION}
ROpcodes == {R_REQUEST(0), R_REQUEST(MAP_OPCODE), R_REQUEST(PEER_OPCODE), R_RESPONSE(MAP_OPCODE)}
RequestedLifetimes == {0, 3600}

\* the mapping lifetimes the configuration is given
ConfigLifetimes == {0, 120, 86400}

Datagrams ==
    {Datagram(length, version, r_opcode, requested_lifetime) :
        length \in DatagramLengths, version \in Versions, r_opcode \in ROpcodes,
        requested_lifetime \in RequestedLifetimes}

\* recvfrom (sock, pkt_buf, MAX_STRING_LEN - 1, ...): the bytes received replace the
\* start of the buffer, the rest of the buffer stays as it was
recvfrom(pkt_buf, datagram) ==
    IF datagram.length >= PCP_MAP_REQUEST_SIZE THEN datagram.data
    ELSE [pkt_buf EXCEPT !.version = datagram.data.version,
                         !.r_opcode = datagram.data.r_opcode]

\* the packet type, from the R bit and the opcode of the second byte
get_packet_type(pkt_buf) ==
    LET opcode == R_REQUEST(pkt_buf.r_opcode)
        response == pkt_buf.r_opcode >= 128
    IN CASE opcode = 0 -> IF response THEN ANNOUNCE_RESPONSE ELSE ANNOUNCE_REQUEST
         [] opcode = MAP_OPCODE -> IF response THEN MAP_RESPONSE ELSE MAP_REQUEST
         [] opcode = PEER_OPCODE -> IF response THEN PEER_RESPONSE ELSE PEER_REQUEST
         [] OTHER -> UNDEFINED

\* the map_request struct with the fields of the buffer in host byte order
deserialize_map_request(pkt_buf) ==
    [pkt_buf EXCEPT !.lifetime = ntohl(@),
                    !.mapping_nonce = [i \in 1 .. 3 |-> ntohl(@[i])],
                    !.internal_port = ntohs(@),
                    !.external_port = ntohs(@)]

\* the response to map_req: its own header, the nonce, protocol and internal port
\* of the request, the assigned external port and address
new_pcp_map_response(map_req, lifetime, result, port, ip) ==
    [version |-> PCP_VERSION, r_opcode |-> R_RESPONSE(MAP_OPCODE), result_code |-> result,
     lifetime |-> lifetime, mapping_nonce |-> map_req.mapping_nonce,
     protocol |-> map_req.protocol, internal_port |-> map_req.internal_port,
     external_port |-> port, external_ip |-> ip]

\* the buffer with the fields of the map_response struct in network byte order
serialize_map_response(pkt_buf, map_resp) ==
    [map_resp EXCEPT !.lifetime = htonl(@),
                     !.mapping_nonce = [i \in 1 .. 3 |-> htonl(@[i])],
                     !.internal_port = htons(@),
                     !.external_port = htons(@)]

\* the buffer after process_map_request has put the response into it
process_map_request(pkt_buf) ==
    LET map_req == deserialize_map_request(pkt_buf)
        result == SUCCESS
        lifetime == 9001
        assigned_ext_port == 4321
        assigned_ext_ip == "80fe::2020:ff3b:2eef:3829"
        map_resp == new_pcp_map_response(map_req, lifetime, result, assigned_ext_port,
                                         assigned_ext_ip)
    IN serialize_map_response(pkt_buf, map_resp)

\* main before its first recvfrom
MainStart(pkt_buf) ==
    [pkt_buf |-> pkt_buf, n |-> 0, type |-> UNDEFINED, pkt_buf_changed |-> FALSE,
     request |-> NoDatagram, sent |-> <<>>]

\* one iteration of the loop of main: a datagram is received, and answered or not.
\* request is the datagram, sent the datagrams given to sendto in this iteration.
main_loop(datagram) ==
    LET received == recvfrom(main.pkt_buf, datagram)
        type == get_packet_type(received)
        pkt_buf_changed == type = MAP_REQUEST /\ config.map_support = TRUE
        pkt_buf == IF pkt_buf_changed THEN process_map_request(received) ELSE received
    IN /\ main' = [pkt_buf |-> pkt_buf, n |-> datagram.length, type |-> type,
                   pkt_buf_changed |-> pkt_buf_changed, request |-> datagram,
                   sent |-> IF pkt_buf_changed THEN <<pkt_buf>> ELSE <<>>]
       /\ UNCHANGED <<db, now, call, freed, req, nt, config, lib, pending>>

\* the callbacks pcpd registers, run when the configuration has changed
pcp_enabled(enabled) ==
    /\ config' = [config EXCEPT !.pcp_enabled = enabled]
    /\ UNCHANGED <<db, now, call, freed, req, nt, main, lib, pending>>

map_support(enabled) ==
    /\ config' = [config EXCEPT !.map_support = enabled]
    /\ UNCHANGED <<db, now, call, freed, req, nt, main, lib, pending>>

peer_support(enabled) ==
    /\ config' = [config EXCEPT !.peer_support = enabled]
    /\ UNCHANGED <<db, now, call, freed, req, nt, main, lib, pending>>

min_mapping_lifetime(lifetime) ==
    /\ config' = IF config.min_mapping_lifetime = lifetime THEN config
                 ELSE [config EXCEPT !.min_mapping_lifetime = lifetime]
    /\ UNCHANGED <<db, now, call, freed, req, nt, main, lib, pending>>

max_mapping_lifetime(lifetime) ==
    /\ config' = IF config.max_mapping_lifetime = lifetime THEN config
                 ELSE [config EXCEPT !.max_mapping_lifetime = lifetime]
    /\ UNCHANGED <<db, now, call, freed, req, nt, main, lib, pending>>

----------------------------------------------------------------------------
(* The Apteryx database below /pcp/config *)

PCP_INITIALIZED_KEY == "pcp_initialized"
PCP_ENABLED_KEY == "pcp_enabled"
MAP_SUPPORT_KEY == "map_support"
PEER_SUPPORT_KEY == "peer_support"
THIRD_PARTY_SUPPORT_KEY == "third_party_support"
PROXY_SUPPORT_KEY == "proxy_support"
UPNP_IGD_PCP_IWF_SUPPORT_KEY == "upnp_igd_pcp_iwf_support"
MIN_MAPPING_LIFETIME_KEY == "min_mapping_lifetime"
MAX_MAPPING_LIFETIME_KEY == "max_mapping_lifetime"
PREFER_FAILURE_REQ_RATE_LIMIT_KEY == "prefer_failure_req_rate_limit"
STARTUP_EPOCH_TIME_KEY == "startup_epoch_time"

\* the defaults of the settings
DEFAULT_MAP_SUPPORT == TRUE
DEFAULT_PEER_SUPPORT == TRUE
DEFAULT_THIRD_PARTY_SUPPORT == FALSE
DEFAULT_PROXY_SUPPORT == FALSE
DEFAULT_UPNP_IGD_PCP_IWF_SUPPORT == FALSE
DEFAULT_MIN_MAPPING_LIFETIME == 120
DEFAULT_MAX_MAPPING_LIFETIME == 86400
DEFAULT_PREFER_FAILURE_REQ_RATE_LIMIT == 256

\* apteryx_set_int (CONFIG_PATH, key, value)
config_set_int(c, key, value) ==
    [k \in (DOMAIN c) \cup {key} |-> IF k = key THEN value ELSE c[k]]

\* apteryx_get_int (CONFIG_PATH, key): -1 when the key has no value
config_get_int(c, key) == IF key \in DOMAIN c THEN c[key] ELSE -1

\* a bool passed as an int
BoolInt(b) == IF b THEN 1 ELSE 0

pcp_initialized_set(c, enable) == config_set_int(c, PCP_INITIALIZED_KEY, BoolInt(enable))

pcp_initialized_get(c) == config_get_int(c, PCP_INITIALIZED_KEY) = 1

pcp_enabled_set(c, enable) == config_set_int(c, PCP_ENABLED_KEY, BoolInt(enable))

pcp_enabled_get(c) == config_get_int(c, PCP_ENABLED_KEY) = 1

map_support_set(c, enable) == config_set_int(c, MAP_SUPPORT_KEY, BoolInt(enable))

map_support_get(c) == config_get_int(c, MAP_SUPPORT_KEY) = 1

peer_support_set(c, enable) == config_set_int(c, PEER_SUPPORT_KEY, BoolInt(enable))

peer_support_get(c) == config_get_int(c, PEER_SUPPORT_KEY) = 1

third_party_support_set(c, enable) == config_set_int(c, THIRD_PARTY_SUPPORT_KEY, BoolInt(enable))

third_party_support_get(c) == config_get_int(c, THIRD_PARTY_SUPPORT_KEY) = 1

proxy_support_set(c, enable) == config_set_int(c, PROXY_SUPPORT_KEY, BoolInt(enable))

proxy_support_get(c) == config_get_int(c, PROXY_SUPPORT_KEY) = 1

upnp_igd_pcp_iwf_support_set(c, enable) == config_set_int(c, UPNP_IGD_PCP_IWF_SUPPORT_KEY, BoolInt(enable))

upnp_igd_pcp_iwf_support_get(c) == config_get_int(c, UPNP_IGD_PCP_IWF_SUPPORT_KEY) = 1

min_mapping_lifetime_set(c, lifetime) == config_set_int(c, MIN_MAPPING_LIFETIME_KEY, U32ToInt(lifetime))

min_mapping_lifetime_get(c) == IntToU32(config_get_int(c, MIN_MAPPING_LIFETIME_KEY))

max_mapping_lifetime_set(c, lifetime) == config_set_int(c, MAX_MAPPING_LIFETIME_KEY, U32ToInt(lifetime))

max_mapping_lifetime_get(c) == IntToU32(config_get_int(c, MAX_MAPPING_LIFETIME_KEY))

prefer_failure_req_rate_limit_set(c, rate) == config_set_int(c, PREFER_FAILURE_REQ_RATE_LIMIT_KEY, U32ToInt(rate))

prefer_failure_req_rate_limit_get(c) == IntToU32(config_get_int(c, PREFER_FAILURE_REQ_RATE_LIMIT_KEY))

startup_epoch_time_set(c, startup_time) == config_set_int(c, STARTUP_EPOCH_TIME_KEY, U32ToInt(startup_time))

startup_epoch_time_get(c) == IntToU32(config_get_int(c, STARTUP_EPOCH_TIME_KEY))

\* the keys config_set_default sets, in the order of its setters
DefaultKeys ==
    <<MAP_SUPPORT_KEY, PEER_SUPPORT_KEY, THIRD_PARTY_SUPPORT_KEY, PROXY_SUPPORT_KEY,
      UPNP_IGD_PCP_IWF_SUPPORT_KEY, MIN_MAPPING_LIFETIME_KEY, MAX_MAPPING_LIFETIME_KEY,
      PREFER_FAILURE_REQ_RATE_LIMIT_KEY>>

\* the k-th setter of config_set_default
default_set(c, k) ==
    CASE k = 1 -> map_support_set(c, DEFAULT_MAP_SUPPORT)
      [] k = 2 -> peer_support_set(c, DEFAULT_PEER_SUPPORT)
      [] k = 3 -> third_party_support_set(c, DEFAULT_THIRD_PARTY_SUPPORT)
      [] k = 4 -> proxy_support_set(c, DEFAULT_PROXY_SUPPORT)
      [] k = 5 -> upnp_igd_pcp_iwf_support_set(c, DEFAULT_UPNP_IGD_PCP_IWF_SUPPORT)
      [] k = 6 -> min_mapping_lifetime_set(c, IntToU32(DEFAULT_MIN_MAPPING_LIFETIME))
      [] k = 7 -> max_mapping_lifetime_set(c, IntToU32(DEFAULT_MAX_MAPPING_LIFETIME))
      [] k = 8 -> prefer_failure_req_rate_limit_set(
                      c, IntToU32(DEFAULT_PREFER_FAILURE_REQ_RATE_LIMIT))

\* the setters of config_set_default from the k-th on, every one of them successful
RECURSIVE config_set_default_from(_, _)
config_set_default_from(c, k) ==
    IF k > Len(DefaultKeys) THEN c ELSE config_set_default_from(default_set(c, k), k + 1)

\* the database after config_set_default, with the database available
config_set_default(c) == config_set_default_from(c, 1)

----------------------------------------------------------------------------
(* The registered callbacks, the mutex that guards them, and the watches *)

REQUEST == "request"            \* the thread that calls the API
NOTIFICATION == "notification"  \* the thread on which Apteryx runs the watch callbacks
Threads == {REQUEST, NOTIFICATION}
NoThread == "none"

\* the settings that have a callback, in the order pcp_load_config goes through them
PolicyKeys ==
    <<PCP_ENABLED_KEY, MAP_SUPPORT_KEY, PEER_SUPPORT_KEY, THIRD_PARTY_SUPPORT_KEY,
      PROXY_SUPPORT_KEY, UPNP_IGD_PCP_IWF_SUPPORT_KEY, MIN_MAPPING_LIFETIME_KEY,
      MAX_MAPPING_LIFETIME_KEY, PREFER_FAILURE_REQ_RATE_LIMIT_KEY>>

NEW_PCP_MAPPING == "new_pcp_mapping"
DELETE_PCP_MAPPING == "delete_pcp_mapping"

\* a pcp_callbacks pointer: the null pointer, or a struct with the fields named
\* holding a function and the other fields null
NullCallbacks == [null |-> TRUE, fields |-> {}]

Callbacks(fields) == [null |-> FALSE, fields |-> fields]

\* the struct pcpd registers: the nine policy callbacks
callbacks == Callbacks({PolicyKeys[i] : i \in 1 .. Len(PolicyKeys)})

\* a struct with every callback
AllCallbacks ==
    Callbacks(callbacks.fields \cup {STARTUP_EPOCH_TIME_KEY, NEW_PCP_MAPPING,
                                     DELETE_PCP_MAPPING})

Handles == {NullCallbacks, callbacks, AllCallbacks}

\* a call of a callback: the policy callbacks are given a bool (enabled) or a
\* u_int32_t (value), new_pcp_mapping the fields of a mapping, delete_pcp_mapping
\* its index
Invocation(name, enabled, value, index, mapping) ==
    [name |-> name, enabled |-> enabled, value |-> value, index |-> index,
     mapping |-> mapping]

\* saved_cbs->key (key_get ()), for the key of a setting
policy_callback(c, key) ==
    CASE key = PCP_ENABLED_KEY ->
             Invocation(key, pcp_enabled_get(c), IntToU32(0), 0, NullMapping)
      [] key = MAP_SUPPORT_KEY ->
             Invocation(key, map_support_get(c), IntToU32(0), 0, NullMapping)
      [] key = PEER_SUPPORT_KEY ->
             Invocation(key, peer_support_get(c), IntToU32(0), 0, NullMapping)
      [] key = THIRD_PARTY_SUPPORT_KEY ->
             Invocation(key, third_party_support_get(c), IntToU32(0), 0, NullMapping)
      [] key = PROXY_SUPPORT_KEY ->
             Invocation(key, proxy_support_get(c), IntToU32(0), 0, NullMapping)
      [] key = UPNP_IGD_PCP_IWF_SUPPORT_KEY ->
             Invocation(key, upnp_igd_pcp_iwf_support_get(c), IntToU32(0), 0, NullMapping)
      [] key = MIN_MAPPING_LIFETIME_KEY ->
             Invocation(key, FALSE, min_mapping_lifetime_get(c), 0, NullMapping)
      [] key = MAX_MAPPING_LIFETIME_KEY ->
             Invocation(key, FALSE, max_mapping_lifetime_get(c), 0, NullMapping)
      [] key = PREFER_FAILURE_REQ_RATE_LIMIT_KEY ->
             Invocation(key, FALSE, prefer_failure_req_rate_limit_get(c), 0, NullMapping)
      [] key = STARTUP_EPOCH_TIME_KEY ->
             Invocation(key, FALSE, startup_epoch_time_get(c), 0, NullMapping)

\* a change notification: the path that changed, below /pcp/config/ (its key) or
\* below /pcp/mappings (from the last slash on), and the value it was given
Notification(tree, key, path, value) ==
    [tree |-> tree, key |-> key, path |-> path, value |-> value]

ConfigChange(key, value) == Notification("config", key, <<>>, value)

MappingChange(index) == Notification("mappings", "", mapping_path(index), 0)

\* the change of a key of a mapping: the path of the mapping, a slash and the key
KeyChange(index, key) ==
    Notification("mappings", key, mapping_path(index) \o <<CHAR_SLASH>>, 0)

\* the configuration of pcpd after the policy callbacks called: each sets its field
\* of config to its argument, unless the field holds that value already
callbacks_called(cfg, invoked) ==
    LET given(name) == \E i \in 1 .. Len(invoked) : invoked[i].name = name
        arg(name) == invoked[CHOOSE i \in 1 .. Len(invoked) : invoked[i].name = name]
        flag(name, old) == IF given(name) THEN arg(name).enabled ELSE old
        number(name, old) == IF given(name) THEN U32ToInt(arg(name).value) ELSE old
    IN [pcp_enabled |-> flag(PCP_ENABLED_KEY, cfg.pcp_enabled),
        map_support |-> flag(MAP_SUPPORT_KEY, cfg.map_support),
        peer_support |-> flag(PEER_SUPPORT_KEY, cfg.peer_support),
        third_party_support |-> flag(THIRD_PARTY_SUPPORT_KEY, cfg.third_party_support),
        proxy_support |-> flag(PROXY_SUPPORT_KEY, cfg.proxy_support),
        upnp_igd_pcp_iwf_support |->
            flag(UPNP_IGD_PCP_IWF_SUPPORT_KEY, cfg.upnp_igd_pcp_iwf_support),
        min_mapping_lifetime |-> number(MIN_MAPPING_LIFETIME_KEY, cfg.min_mapping_lifetime),
        max_mapping_lifetime |-> number(MAX_MAPPING_LIFETIME_KEY, cfg.max_mapping_lifetime),
        prefer_failure_req_rate_limit |->
            number(PREFER_FAILURE_REQ_RATE_LIMIT_KEY, cfg.prefer_failure_req_rate_limit)]

\* the notifications Apteryx raises for a change of the paths given, if any watch
raised(paths) == IF watches THEN paths ELSE {}

\* a thread outside the callback section
ThIdle ==
    [fn |-> "idle", pc |-> "idle", cb |-> NullCallbacks, key |-> "", value |-> 0,
     index |-> 0, mapping |-> NullMapping, invoked |-> <<>>, ret |-> FALSE]

\* the process runs: it has not called exit, and no thread has ended it by a read
\* through the null pointer
Running == \A t \in Threads : th[t].pc \notin {"crashed", "exited"}

\* pthread_mutex_lock (&callback_lock): the thread waits until the mutex is free
pthread_mutex_lock(t) ==
    /\ callback_lock = NoThread
    /\ callback_lock' = t

pthread_mutex_unlock(t) == callback_lock' = NoThread

\* pcp_register_cb (cb), up to its pthread_mutex_lock
register_cb_call(t, cb) ==
    /\ Running /\ th[t].pc = "idle"
    /\ th' = [th EXCEPT ![t] = [ThIdle EXCEPT !.fn = "pcp_register_cb", !.pc = "lock",
                                               !.cb = cb]]
    /\ UNCHANGED <<db, now, call, freed, req, nt, config, main, conf, saved_cbs,
                   callback_lock, watches, pending>>

register_cb_lock(t) ==
    /\ Running /\ th[t].fn = "pcp_register_cb" /\ th[t].pc = "lock"
    /\ pthread_mutex_lock(t)
    /\ th' = [th EXCEPT ![t].pc = "assign"]
    /\ UNCHANGED <<db, now, call, freed, req, nt, config, main, conf, saved_cbs, watches,
                   pending>>

\* saved_cbs = cb
register_cb_assign(t) ==
    /\ Running /\ th[t].fn = "pcp_register_cb" /\ th[t].pc = "assign"
    /\ saved_cbs' = th[t].cb
    /\ th' = [th EXCEPT ![t].pc = "unlock"]
    /\ UNCHANGED <<db, now, call, freed, req, nt, config, main, conf, callback_lock,
                   watches, pending>>

\* pthread_mutex_unlock, the two apteryx_watch and the return
register_cb_unlock(t) ==
    /\ Running /\ th[t].fn = "pcp_register_cb" /\ th[t].pc = "unlock"
    /\ pthread_mutex_unlock(t)
    /\ watches' = ~th[t].cb.null
    /\ th' = [th EXCEPT ![t] = ThIdle]
    /\ UNCHANGED <<db, now, call, freed, req, nt, config, main, conf, saved_cbs, pending>>

\* pcp_load_config, up to its pthread_mutex_lock or up to its first write
load_config_call(t) ==
    /\ Running /\ th[t].pc = "idle"
    /\ th' = [th EXCEPT ![t] = [ThIdle EXCEPT !.fn = "pcp_load_config",
                                               !.pc = IF pcp_initialized_get(conf)
                                                      THEN "lock" ELSE "write",
                                               !.index = 1]]
    /\ UNCHANGED <<db, now, call, freed, req, nt, config, main, conf, saved_cbs,
                   callback_lock, watches, pending>>

load_config_lock(t) ==
    /\ Running /\ th[t].fn = "pcp_load_config" /\ th[t].pc = "lock"
    /\ pthread_mutex_lock(t)
    /\ th' = [th EXCEPT ![t].pc = "dispatch"]
    /\ UNCHANGED <<db, now, call, freed, req, nt, config, main, conf, saved_cbs, watches,
                   pending>>

\* as load_config_invoked, with every flag callback given the value of pcp_enabled
load_config_invoked_enabled(c, cbs) ==
    SelectSeq([i \in 1 .. Len(PolicyKeys) |->
                   [policy_callback(c, PolicyKeys[i]) EXCEPT !.enabled = pcp_enabled_get(c)]],
              LAMBDA inv : inv.name \in cbs.fields)

\* the callbacks pcp_load_config calls, one for each field of saved_cbs that is set
load_config_invoked(c, cbs) ==
    SelectSeq([i \in 1 .. Len(PolicyKeys) |-> policy_callback(c, PolicyKeys[i])],
              LAMBDA inv : inv.name \in cbs.fields)

\* the nine if (saved_cbs->...) of pcp_load_config; saved_cbs is not compared with
\* NULL, and the read of a field of the null pointer ends the process
load_config_dispatch(t) ==
    /\ Running /\ th[t].fn = "pcp_load_config" /\ th[t].pc = "dispatch"
    /\ th' = IF saved_cbs.null THEN [th EXCEPT ![t].pc = "crashed"]
             ELSE [th EXCEPT ![t].pc = "unlock",
                             ![t].invoked = load_config_invoked(conf, saved_cbs),
                             ![t].ret = TRUE]
    /\ config' = IF saved_cbs.null THEN config
                 ELSE callbacks_called(config, load_config_invoked(conf, saved_cbs))
    /\ UNCHANGED <<db, now, call, freed, req, nt, main, conf, saved_cbs,
                   callback_lock, watches, pending>>

load_config_unlock(t) ==
    /\ Running /\ th[t].fn = "pcp_load_config" /\ th[t].pc = "unlock"
    /\ pthread_mutex_unlock(t)
    /\ th' = [th EXCEPT ![t] = ThIdle]
    /\ UNCHANGED <<db, now, call, freed, req, nt, config, main, conf, saved_cbs, watches,
                   pending>>

\* the writes of pcp_load_config on a database that is not initialised:
\* pcp_initialized_set (true) && pcp_enabled_set (true) && config_set_default ()
LoadConfigKeys == <<PCP_INITIALIZED_KEY, PCP_ENABLED_KEY>> \o DefaultKeys

load_config_set(c, k) ==
    CASE k = 1 -> pcp_initialized_set(c, TRUE)
      [] k = 2 -> pcp_enabled_set(c, TRUE)
      [] OTHER -> default_set(c, k - 2)

\* the next write of pcp_load_config, with the database available
load_config_write(t) ==
    LET k == th[t].index
        last == k = Len(LoadConfigKeys)
    IN /\ Running /\ th[t].fn = "pcp_load_config" /\ th[t].pc = "write"
       /\ conf' = load_config_set(conf, k)
       /\ pending' = pending \cup
                        raised({ConfigChange(LoadConfigKeys[k], conf'[LoadConfigKeys[k]])})
       /\ Cardinality(pending') <= MaxPending
       /\ th' = [th EXCEPT ![t] = IF last THEN ThIdle ELSE [@ EXCEPT !.index = k + 1]]
       /\ UNCHANGED <<db, now, call, freed, req, nt, config, main, saved_cbs,
                      callback_lock, watches>>

\* pcp_config_changed (path, value) for the path of a notification, up to its
\* pthread_mutex_lock; the path is below /pcp/config/
config_changed_call(t, n) ==
    /\ Running /\ th[t].pc = "idle"
    /\ n \in pending /\ n.tree = "config"
    /\ pending' = pending \ {n}
    /\ th' = [th EXCEPT ![t] = [ThIdle EXCEPT !.fn = "pcp_config_changed", !.pc = "lock",
                                               !.key = n.key, !.value = n.value]]
    /\ UNCHANGED <<db, now, call, freed, req, nt, config, main, conf, saved_cbs,
                   callback_lock, watches>>

config_changed_lock(t) ==
    /\ Running /\ th[t].fn = "pcp_config_changed" /\ th[t].pc = "lock"
    /\ pthread_mutex_lock(t)
    /\ th' = [th EXCEPT ![t].pc = "dispatch"]
    /\ UNCHANGED <<db, now, call, freed, req, nt, config, main, conf, saved_cbs, watches,
                   pending>>

\* as config_changed_dispatch, with the callback given the value that the
\* notification carries instead of the result of the getter
config_changed_dispatch_value(t) ==
    LET key == th[t].key
        known == key = PCP_INITIALIZED_KEY \/ key = STARTUP_EPOCH_TIME_KEY
                 \/ \E i \in 1 .. Len(PolicyKeys) : PolicyKeys[i] = key
        called == key # PCP_INITIALIZED_KEY /\ known /\ ~saved_cbs.null
                  /\ key \in saved_cbs.fields
        carried == config_set_int(EmptyConf, key, th[t].value)
        invoked == IF called THEN <<policy_callback(carried, key)>> ELSE <<>>
    IN /\ Running /\ th[t].fn = "pcp_config_changed" /\ th[t].pc = "dispatch"
       /\ th' = [th EXCEPT ![t].pc = "unlock", ![t].invoked = invoked, ![t].ret = known]
       /\ config' = callbacks_called(config, invoked)
       /\ UNCHANGED <<db, now, call, freed, req, nt, main, conf, saved_cbs,
                      callback_lock, watches, pending>>

\* the chain of strcmp (key, ...): the callback of the key is called if saved_cbs
\* and its field for the key are set; a key that is not known makes the call fail
config_changed_dispatch(t) ==
    LET key == th[t].key
        known == key = PCP_INITIALIZED_KEY \/ key = STARTUP_EPOCH_TIME_KEY
                 \/ \E i \in 1 .. Len(PolicyKeys) : PolicyKeys[i] = key
        called == key # PCP_INITIALIZED_KEY /\ known /\ ~saved_cbs.null
                  /\ key \in saved_cbs.fields
        invoked == IF called THEN <<policy_callback(conf, key)>> ELSE <<>>
    IN /\ Running /\ th[t].fn = "pcp_config_changed" /\ th[t].pc = "dispatch"
       /\ th' = [th EXCEPT ![t].pc = "unlock", ![t].invoked = invoked, ![t].ret = known]
       /\ config' = callbacks_called(config, invoked)
       /\ UNCHANGED <<db, now, call, freed, req, nt, main, conf, saved_cbs,
                      callback_lock, watches, pending>>

config_changed_unlock(t) ==
    /\ Running /\ th[t].fn = "pcp_config_changed" /\ th[t].pc = "unlock"
    /\ pthread_mutex_unlock(t)
    /\ th' = [th EXCEPT ![t] = ThIdle]
    /\ UNCHANGED <<db, now, call, freed, req, nt, config, main, conf, saved_cbs, watches,
                   pending>>

\* sscanf (tmp, "%d", &mapping_id) on the path after MAPPING_PATH "/", cut at its
\* last slash if it has one: <<the number of conversions, mapping_id>>
sscanf_d(tmp) ==
    LET digits == IF tmp # <<>> /\ Head(tmp) \in {CHAR_MINUS, CHAR_PLUS} THEN Tail(tmp)
                  ELSE tmp
    IN IF digits # <<>> /\ Head(digits) >= CHAR_ZERO /\ Head(digits) <= CHAR_ZERO + 9
       THEN <<1, atoi(tmp)>>
       ELSE <<0, -1>>

\* if (strchr (tmp, '/')) *strrchr (tmp, '/') = '\0': tmp up to its last slash
cut_at_last_slash(tmp) ==
    LET slashes == {i \in 1 .. Len(tmp) : tmp[i] = CHAR_SLASH}
    IN IF slashes = {} THEN tmp
       ELSE SubSeq(tmp, 1, (CHOOSE i \in slashes : \A j \in slashes : j <= i) - 1)

\* pcp_mapping_changed (path, value) for the path of a notification, up to its
\* pthread_mutex_lock: the index is read from the path and the mapping looked up
mapping_changed_call(t, n) ==
    LET scanned == sscanf_d(cut_at_last_slash(Tail(n.path)))
    IN /\ Running /\ th[t].pc = "idle"
       /\ n \in pending /\ n.tree = "mappings"
       /\ pending' = pending \ {n}
       /\ th' = [th EXCEPT ![t] =
                     IF scanned[1] # 1 THEN ThIdle
                     ELSE [ThIdle EXCEPT !.fn = "pcp_mapping_changed", !.pc = "lock",
                                         !.index = scanned[2],
                                         !.mapping = find_result(db, scanned[2])]]
       /\ UNCHANGED <<db, now, call, freed, req, nt, config, main, conf, saved_cbs,
                      callback_lock, watches>>

\* as mapping_changed_lock, going on without the mutex
mapping_changed_lock_skipped(t) ==
    /\ Running /\ th[t].fn = "pcp_mapping_changed" /\ th[t].pc = "lock"
    /\ th' = [th EXCEPT ![t].pc = "dispatch"]
    /\ UNCHANGED <<db, now, call, freed, req, nt, config, main, conf, saved_cbs,
                   callback_lock, watches, pending>>

mapping_changed_lock(t) ==
    /\ Running /\ th[t].fn = "pcp_mapping_changed" /\ th[t].pc = "lock"
    /\ pthread_mutex_lock(t)
    /\ th' = [th EXCEPT ![t].pc = "dispatch"]
    /\ UNCHANGED <<db, now, call, freed, req, nt, config, main, conf, saved_cbs, watches,
                   pending>>

\* as mapping_changed_dispatch, calling new_pcp_mapping for every notification
mapping_changed_dispatch_new(t) ==
    LET mapping == th[t].mapping
        called == ~saved_cbs.null /\ NEW_PCP_MAPPING \in saved_cbs.fields
    IN /\ Running /\ th[t].fn = "pcp_mapping_changed" /\ th[t].pc = "dispatch"
       /\ th' = [th EXCEPT ![t].pc = "unlock",
                           ![t].invoked =
                               IF ~called THEN <<>>
                               ELSE <<Invocation(NEW_PCP_MAPPING, FALSE, IntToU32(0),
                                                 th[t].index, mapping)>>,
                           ![t].ret = TRUE]
       /\ UNCHANGED <<db, now, call, freed, req, nt, config, main, conf, saved_cbs,
                      callback_lock, watches, pending>>

\* delete_pcp_mapping (mapping_id) if the mapping was not found, new_pcp_mapping
\* with its fields if it was, each if saved_cbs and the field of the callback are set
mapping_changed_dispatch(t) ==
    LET mapping == th[t].mapping
        name == IF mapping = NullMapping THEN DELETE_PCP_MAPPING ELSE NEW_PCP_MAPPING
        called == ~saved_cbs.null /\ name \in saved_cbs.fields
    IN /\ Running /\ th[t].fn = "pcp_mapping_changed" /\ th[t].pc = "dispatch"
       /\ th' = [th EXCEPT ![t].pc = "unlock",
                           ![t].invoked =
                               IF ~called THEN <<>>
                               ELSE IF mapping = NullMapping
                               THEN <<Invocation(name, FALSE, IntToU32(0), th[t].index,
                                                 NullMapping)>>
                               ELSE <<Invocation(name, FALSE, IntToU32(0),
                                                 mapping[1].index, mapping)>>,
                           ![t].ret = TRUE]
       /\ UNCHANGED <<db, now, call, freed, req, nt, config, main, conf, saved_cbs,
                      callback_lock, watches, pending>>

mapping_changed_unlock(t) ==
    /\ Running /\ th[t].fn = "pcp_mapping_changed" /\ th[t].pc = "unlock"
    /\ pthread_mutex_unlock(t)
    /\ th' = [th EXCEPT ![t] = ThIdle]
    /\ UNCHANGED <<db, now, call, freed, req, nt, config, main, conf, saved_cbs, watches,
                   pending>>

\* a setter of the API called with the database available: key_set (enable) for
\* a flag, key_set (value) for a u_int32_t
policy_set(c, key, enable, value) ==
    CASE key = PCP_INITIALIZED_KEY -> pcp_initialized_set(c, enable)
      [] key = PCP_ENABLED_KEY -> pcp_enabled_set(c, enable)
      [] key = MAP_SUPPORT_KEY -> map_support_set(c, enable)
      [] key = PEER_SUPPORT_KEY -> peer_support_set(c, enable)
      [] key = THIRD_PARTY_SUPPORT_KEY -> third_party_support_set(c, enable)
      [] key = PROXY_SUPPORT_KEY -> proxy_support_set(c, enable)
      [] key = UPNP_IGD_PCP_IWF_SUPPORT_KEY -> upnp_igd_pcp_iwf_support_set(c, enable)
      [] key = MIN_MAPPING_LIFETIME_KEY -> min_mapping_lifetime_set(c, value)
      [] key = MAX_MAPPING_LIFETIME_KEY -> max_mapping_lifetime_set(c, value)
      [] key = PREFER_FAILURE_REQ_RATE_LIMIT_KEY ->
             prefer_failure_req_rate_limit_set(c, value)
      [] key = STARTUP_EPOCH_TIME_KEY -> startup_epoch_time_set(c, value)

\* the record of a call on the configuration
ConfigCall(op, key) == Call(op, 0, 0, NoRequest, 0, 0, now, TRUE)

policy_set_call(key, enable, value) ==
    /\ conf' = policy_set(conf, key, enable, value)
    /\ call' = ConfigCall("set", key)
    /\ UNCHANGED <<db, now, req, nt, config, main, saved_cbs, callback_lock, th, watches>>

\* as config_set_default_call, with pcp_enabled set as well
config_set_default_call_enabled ==
    /\ conf' = config_set_default(pcp_enabled_set(conf, TRUE))
    /\ call' = ConfigCall("config_set_default", "")
    /\ UNCHANGED <<db, now, req, nt, config, main, saved_cbs, callback_lock, th, watches>>

\* config_set_default (), with the database available
config_set_default_call ==
    /\ conf' = config_set_default(conf)
    /\ call' = ConfigCall("config_set_default", "")
    /\ UNCHANGED <<db, now, req, nt, config, main, saved_cbs, callback_lock, th, watches>>

SIGUSR1 == "SIGUSR1"
SIGINT == "SIGINT"
SIGTERM == "SIGTERM"
Signals == {SIGUSR1, SIGINT, SIGTERM}

\* the thread after exit (EXIT_SUCCESS)
ThExited == [ThIdle EXCEPT !.fn = "exit", !.pc = "exited"]

\* the signal handler of pcpd: SIGUSR1 writes the state file, SIGINT and SIGTERM
\* call pcp_deinit and exit
signal_handler(signal) ==
    IF signal = SIGINT \/ signal = SIGTERM
    THEN /\ pcp_deinit
         /\ th' = [th EXCEPT ![REQUEST] = ThExited]
    ELSE UNCHANGED <<db, now, call, req, nt, config, main, conf, saved_cbs, callback_lock,
                     th, watches>>

\* the callback section before any call
LibStart ==
    /\ conf = EmptyConf
    /\ saved_cbs = NullCallbacks
    /\ callback_lock = NoThread
    /\ th = [t \in Threads |-> ThIdle]
    /\ watches = FALSE
    /\ pending = {}

----------------------------------------------------------------------------

Init ==
    /\ db = EmptyDb
    /\ now = StartTime
    /\ call = NoCall
    /\ freed = {}
    /\ req = ReqIdle
    /\ nt = NtIdle
    /\ config = ZeroConfig
    /\ main = MainStart(Packet(0, 0, 0, 0, NoRequest))
    /\ LibStart

(* pcpd receiving datagrams while its configuration changes *)

InitPcpd ==
    /\ db = EmptyDb
    /\ now = StartTime
    /\ call = NoCall
    /\ freed = {}
    /\ req = ReqIdle
    /\ nt = NtIdle
    /\ config = ZeroConfig
    /\ \E pkt_buf \in UninitBuffers : main = MainStart(pkt_buf)
    /\ LibStart

MainLoop == \E datagram \in Datagrams : main_loop(datagram)

PcpEnabled == \E enabled \in BOOLEAN : pcp_enabled(enabled)

MapSupport == \E enabled \in BOOLEAN : map_support(enabled)

PeerSupport == \E enabled \in BOOLEAN : peer_support(enabled)

MinMappingLifetime == \E lifetime \in ConfigLifetimes : min_mapping_lifetime(lifetime)

MaxMappingLifetime == \E lifetime \in ConfigLifetimes : max_mapping_lifetime(lifetime)

NextPcpd ==
    \/ MainLoop
    \/ PcpEnabled
    \/ MapSupport
    \/ PeerSupport
    \/ MinMappingLifetime
    \/ MaxMappingLifetime

SpecPcpd == InitPcpd /\ [][NextPcpd]_vars

(* The store with its lease times: few indexes, all lifetimes and clock readings *)

Add ==
    \E add \in LeaseAdds, lifetime \in Lifetimes, t2 \in now .. (now + 1) :
        /\ t2 <= MaxClock
        /\ pcp_mapping_add(add[1], add[2], lifetime, t2)
        /\ UNCHANGED <<freed, pending>>

Refresh ==
    \E index \in RefreshIndexes, new_lifetime \in Lifetimes, dev \in Deviations :
        /\ pcp_mapping_refresh_lifetime(index, new_lifetime, now + new_lifetime + dev)
        /\ UNCHANGED <<freed, pending>>

Delete == \E index \in LeaseIndexes : pcp_mapping_delete(index) /\ UNCHANGED <<freed, pending>>

DeleteAll == pcp_mapping_deleteall /\ UNCHANGED <<freed, pending>>

Clock == Tick /\ UNCHANGED <<freed, pending>>

Find == \E index \in LeaseIndexes : find_returns(index) /\ UNCHANGED <<freed, pending>>

GetAll == \E paths \in SearchOrders(db) : getall_returns(paths) /\ UNCHANGED <<freed, pending>>

RemainingLifetime ==
    \E index \in LeaseIndexes : remaining_lifetime_returns(index) /\ UNCHANGED <<freed, pending>>

Next ==
    Add \/ Refresh \/ Delete \/ DeleteAll \/ Clock \/ Find \/ GetAll \/ RemainingLifetime

Spec == Init /\ [][Next]_vars

----------------------------------------------------------------------------
(* The store with its indexes: explicit and allocated indexes, one lifetime *)

AllocAdd ==
    \E add \in AllocAdds :
        /\ pcp_mapping_add(add[1], add[2], AllocLifetime, now)
        /\ UNCHANGED <<freed, pending>>

AllocRefresh ==
    \E index \in Indexes, dev \in {0, 4} :
        /\ pcp_mapping_refresh_lifetime(index, 0, now + dev)
        /\ UNCHANGED <<freed, pending>>

AllocDelete ==
    \E index \in Indexes :
        /\ pcp_mapping_delete(index)
        /\ freed' = IF mapping_exists(db, index) THEN freed \cup {index} ELSE freed
        /\ UNCHANGED pending

AllocDeleteAll == pcp_mapping_deleteall /\ UNCHANGED <<freed, pending>>

NextAlloc == AllocAdd \/ AllocRefresh \/ AllocDelete \/ AllocDeleteAll

SpecAlloc == Init /\ [][NextAlloc]_vars

----------------------------------------------------------------------------
(* The store with indexes far apart, and its enumeration *)

OrderAdd ==
    \E index \in ExtremeIndexes, a \in Requests :
        /\ pcp_mapping_add(index, a, AllocLifetime, now)
        /\ UNCHANGED <<freed, pending>>

OrderDelete == \E index \in ExtremeIndexes : pcp_mapping_delete(index) /\ UNCHANGED <<freed, pending>>

OrderGetAll == \E paths \in SearchOrders(db) : getall_returns(paths) /\ UNCHANGED <<freed, pending>>

NextOrder == OrderAdd \/ OrderDelete \/ OrderGetAll

SpecOrder == Init /\ [][NextOrder]_vars

----------------------------------------------------------------------------
(* The store with its greatest index at either end of 0 .. INT_MAX, and the      *)
(* allocation of the next index from it                                         *)

\* the index arguments of the calls when the end of the index space is explored
EdgeIndexes == {0, 9, 10} \cup {MAXIMUM_MAPPING_ID - k : k \in 0 .. MaxIndex}

EdgeAdd ==
    \E index \in EdgeIndexes :
        /\ pcp_mapping_add(index, MapRequest, AllocLifetime, now)
        /\ UNCHANGED <<freed, pending>>

EdgeAuto ==
    /\ pcp_mapping_add(AUTO_INDEX, PeerRequest, AllocLifetime, now)
    /\ UNCHANGED <<freed, pending>>

EdgeDelete ==
    \E index \in EdgeIndexes : pcp_mapping_delete(index) /\ UNCHANGED <<freed, pending>>

NextEdge == EdgeAdd \/ EdgeAuto \/ EdgeDelete

SpecEdge == Init /\ [][NextEdge]_vars

----------------------------------------------------------------------------
(* The refresh of a mapping with lifetimes at either end of u_int32_t *)

UINT_MAX == <<HALF - 1, HALF - 1>>

\* the values of time (NULL) + new_lifetime, as u_int32_t, that the refreshes aim
\* at: either end of the range, where expected - 3 or expected + 3 wraps, and one
\* value inside of it
WrapExpected ==
    {<<0, k>> : k \in 0 .. 4} \cup {<<0, 100>>} \cup
    {U32Sub(UINT_MAX, <<0, k>>) : k \in 0 .. 4}

\* the lifetimes of the refreshes: two that a client asks for, and those that
\* bring the clock at the start to one of the values above
WrapLifetimes ==
    {IntToU32(0), IntToU32(120)} \cup
    {U32Sub(expected, IntToU32(StartTime)) : expected \in WrapExpected}

\* e + dev on u_int32_t for an int dev
U32Shift(e, dev) ==
    IF dev >= 0 THEN U32Add(e, IntToU32(dev)) ELSE U32Sub(e, IntToU32(-dev))

WrapAdd ==
    /\ pcp_mapping_add(StepIndex, StepRequest, AllocLifetime, now)
    /\ UNCHANGED <<freed, pending>>

WrapRefresh ==
    \E new_lifetime \in WrapLifetimes, dev \in Deviations :
        /\ pcp_mapping_refresh_lifetime(
               StepIndex, U32ToInt(new_lifetime),
               U32ToInt(U32Shift(U32Add(IntToU32(now), new_lifetime), dev)))
        /\ UNCHANGED <<freed, pending>>

WrapDelete == pcp_mapping_delete(StepIndex) /\ UNCHANGED <<freed, pending>>

WrapClock == Tick /\ UNCHANGED <<freed, pending>>

NextWrap == WrapAdd \/ WrapRefresh \/ WrapDelete \/ WrapClock

SpecWrap == Init /\ [][NextWrap]_vars

----------------------------------------------------------------------------
(* The callback section: the request thread registers callbacks, loads the        *)
(* configuration and creates and deletes a mapping, while the notification thread *)
(* runs the watch callbacks for the changes Apteryx has raised.                   *)

\* the request thread is between two calls
RequestIdle == Running /\ th[REQUEST].pc = "idle"

\* room for the notifications given among those that wait
Room(notifications) == Cardinality(pending \cup raised(notifications)) <= MaxPending

WatchRegisterCb == \E cb \in Handles : register_cb_call(REQUEST, cb)

WatchRegisterCbLock == register_cb_lock(REQUEST)

WatchRegisterCbAssign == register_cb_assign(REQUEST)

WatchRegisterCbUnlock == register_cb_unlock(REQUEST)

WatchLoadConfig == load_config_call(REQUEST)

WatchLoadConfigLock == load_config_lock(REQUEST)

WatchLoadConfigDispatch == load_config_dispatch(REQUEST)

WatchLoadConfigUnlock == load_config_unlock(REQUEST)

WatchLoadConfigWrite == load_config_write(REQUEST)

\* the node of the mapping is set by the last write of a successful add
WatchAdd ==
    /\ RequestIdle
    /\ Room({MappingChange(StepIndex)})
    /\ pcp_mapping_add(StepIndex, StepRequest, AllocLifetime, now)
    /\ pending' = IF call'.ret THEN pending \cup raised({MappingChange(call'.id)})
                  ELSE pending
    /\ UNCHANGED freed

\* the node of the mapping is removed by the prune of a successful delete
WatchDelete ==
    /\ RequestIdle
    /\ Room({MappingChange(StepIndex)})
    /\ pcp_mapping_delete(StepIndex)
    /\ pending' = IF call'.ret THEN pending \cup raised({MappingChange(StepIndex)})
                  ELSE pending
    /\ UNCHANGED freed

WatchDeleteAll ==
    /\ RequestIdle
    /\ Room({MappingChange(index) : index \in Live(db)})
    /\ pcp_mapping_deleteall
    /\ pending' = pending \cup raised({MappingChange(index) : index \in Live(db)})
    /\ UNCHANGED freed

WatchConfigChanged == \E n \in pending : config_changed_call(NOTIFICATION, n)

WatchConfigChangedLock == config_changed_lock(NOTIFICATION)

WatchConfigChangedDispatch == config_changed_dispatch(NOTIFICATION)

WatchConfigChangedUnlock == config_changed_unlock(NOTIFICATION)

WatchMappingChanged == \E n \in pending : mapping_changed_call(NOTIFICATION, n)

WatchMappingChangedLock == mapping_changed_lock(NOTIFICATION)

WatchMappingChangedDispatch == mapping_changed_dispatch(NOTIFICATION)

WatchMappingChangedUnlock == mapping_changed_unlock(NOTIFICATION)

NextWatch ==
    \/ WatchRegisterCb
    \/ WatchRegisterCbLock
    \/ WatchRegisterCbAssign
    \/ WatchRegisterCbUnlock
    \/ WatchLoadConfig
    \/ WatchLoadConfigLock
    \/ WatchLoadConfigDispatch
    \/ WatchLoadConfigUnlock
    \/ WatchLoadConfigWrite
    \/ WatchAdd
    \/ WatchDelete
    \/ WatchDeleteAll
    \/ WatchConfigChanged
    \/ WatchConfigChangedLock
    \/ WatchConfigChangedDispatch
    \/ WatchConfigChangedUnlock
    \/ WatchMappingChanged
    \/ WatchMappingChangedLock
    \/ WatchMappingChangedDispatch
    \/ WatchMappingChangedUnlock

SpecWatch == Init /\ [][NextWatch]_vars

(* The mapping notifications alone, with threads that go on *)

\* the steps of the notification thread for a mapping notification
MappingChangedSteps ==
    \/ WatchMappingChanged
    \/ WatchMappingChangedLock
    \/ WatchMappingChangedDispatch
    \/ WatchMappingChangedUnlock

\* the steps of the request thread inside pcp_register_cb
RegisterCbSteps == WatchRegisterCbLock \/ WatchRegisterCbAssign \/ WatchRegisterCbUnlock

NextNotify ==
    \/ WatchRegisterCb
    \/ WatchRegisterCbLock
    \/ WatchRegisterCbAssign
    \/ WatchRegisterCbUnlock
    \/ WatchAdd
    \/ WatchDelete
    \/ WatchDeleteAll
    \/ WatchMappingChanged
    \/ WatchMappingChangedLock
    \/ WatchMappingChangedDispatch
    \/ WatchMappingChangedUnlock

\* a thread that can take a step takes it: the notification thread delivers every
\* notification raised, and a call in progress on the request thread goes on
SpecNotify ==
    /\ Init
    /\ [][NextNotify]_vars
    /\ WF_vars(MappingChangedSteps)
    /\ WF_vars(RegisterCbSteps)

----------------------------------------------------------------------------
(* pcpd and its copy of the configuration: main registers its callbacks and loads *)
(* the configuration, other processes write settings, and the notification thread *)
(* runs pcp_config_changed for the changes of the settings                       *)

\* the settings the other processes write, and the lifetimes they write
CacheKeys == {MAP_SUPPORT_KEY, MAX_MAPPING_LIFETIME_KEY}

CacheLifetimes == {IntToU32(3600)}

\* main: pcp_register_cb (&callbacks), once
CacheRegisterCb == saved_cbs.null /\ register_cb_call(REQUEST, callbacks)

\* main: pcp_load_config (), after pcp_register_cb has returned
CacheLoadConfig == watches /\ load_config_call(REQUEST)

\* a setter called by another process; Apteryx raises the notification of the change
cache_set(key, enable, value) ==
    /\ policy_set_call(key, enable, value)
    /\ pending' = pending \cup raised({ConfigChange(key, conf'[key])})
    /\ Cardinality(pending') <= MaxPending
    /\ UNCHANGED freed

\* a database left initialised by an earlier run of pcpd
CacheInitialized == RequestIdle /\ cache_set(PCP_INITIALIZED_KEY, TRUE, IntToU32(0))

\* a setting written while pcpd is not inside a call of the API
CacheSet ==
    \E key \in CacheKeys, enable \in BOOLEAN, value \in CacheLifetimes :
        RequestIdle /\ cache_set(key, enable, value)

\* a setting written at any time
DeliverSet ==
    \E key \in CacheKeys, enable \in BOOLEAN, value \in CacheLifetimes :
        Running /\ cache_set(key, enable, value)

\* the steps of pcpd on its two threads
CacheSteps ==
    \/ CacheRegisterCb
    \/ WatchRegisterCbLock
    \/ WatchRegisterCbAssign
    \/ WatchRegisterCbUnlock
    \/ CacheLoadConfig
    \/ WatchLoadConfigLock
    \/ WatchLoadConfigDispatch
    \/ WatchLoadConfigUnlock
    \/ WatchLoadConfigWrite
    \/ WatchConfigChanged
    \/ WatchConfigChangedLock
    \/ WatchConfigChangedDispatch
    \/ WatchConfigChangedUnlock

NextCache == CacheSteps \/ CacheInitialized \/ CacheSet

SpecCache == Init /\ [][NextCache]_vars

NextDeliver == CacheSteps \/ CacheInitialized \/ DeliverSet

SpecDeliver == Init /\ [][NextDeliver]_vars

----------------------------------------------------------------------------
(* The configuration and the mappings in one database, up to the exit of pcpd *)

\* the settings set one by one, and the values they are given
SetKeys == {PCP_ENABLED_KEY, MAP_SUPPORT_KEY, MAX_MAPPING_LIFETIME_KEY, STARTUP_EPOCH_TIME_KEY}

SetValues == {IntToU32(3600), IntToU32(StartTime)}

ConfigSet ==
    \E key \in SetKeys, enable \in BOOLEAN, value \in SetValues :
        /\ RequestIdle
        /\ policy_set_call(key, enable, value)
        /\ UNCHANGED <<freed, pending>>

ConfigInitialized ==
    /\ RequestIdle
    /\ policy_set_call(PCP_INITIALIZED_KEY, TRUE, IntToU32(0))
    /\ UNCHANGED <<freed, pending>>

ConfigSetDefault == RequestIdle /\ config_set_default_call /\ UNCHANGED <<freed, pending>>

ConfigAdd ==
    \E add \in LeaseAdds :
        /\ RequestIdle
        /\ pcp_mapping_add(add[1], add[2], AllocLifetime, now)
        /\ UNCHANGED <<freed, pending>>

ConfigDelete ==
    \E index \in LeaseIndexes :
        RequestIdle /\ pcp_mapping_delete(index) /\ UNCHANGED <<freed, pending>>

ConfigDeleteAll == RequestIdle /\ pcp_mapping_deleteall /\ UNCHANGED <<freed, pending>>

ConfigSignal ==
    \E signal \in Signals :
        RequestIdle /\ signal_handler(signal) /\ UNCHANGED <<freed, pending>>

NextConfig ==
    \/ ConfigSet
    \/ ConfigInitialized
    \/ ConfigSetDefault
    \/ ConfigAdd
    \/ ConfigDelete
    \/ ConfigDeleteAll
    \/ ConfigSignal

SpecConfig == Init /\ [][NextConfig]_vars

----------------------------------------------------------------------------
(* The store on a database whose writes and prunes may fail *)

\* the writes of an add that fail: none, all, the lifetime, all but the last one,
\* the last one
FailedWrites == {{}, 1 .. 14, {9}, 1 .. 13, {14}}

FailAdd ==
    \E add \in LeaseAdds, failed \in FailedWrites :
        /\ pcp_mapping_add_failing(add[1], add[2], AllocLifetime, failed)
        /\ UNCHANGED <<freed, pending>>

FailDelete ==
    \E index \in LeaseIndexes, pruned \in BOOLEAN :
        /\ pcp_mapping_delete_failing(index, pruned)
        /\ UNCHANGED <<freed, pending>>

FailFind == \E index \in LeaseIndexes : find_returns(index) /\ UNCHANGED <<freed, pending>>

NextFail == FailAdd \/ FailDelete \/ FailFind

SpecFail == Init /\ [][NextFail]_vars

----------------------------------------------------------------------------
(* The store with its single database accesses: the request thread runs a refresh  *)
(* one apteryx_set_int at a time, each of which may fail, while the notification   *)
(* thread runs pcp_mapping_find one read at a time.                                *)

\* the request thread is between two calls
Returned == req.pc = 0

\* pcp_mapping_refresh_lifetime up to its first write
refresh_call(index, new_lifetime, new_end_of_life) ==
    LET rejected == refresh_rejected(now, new_lifetime, new_end_of_life)
        ok == ~rejected /\ mapping_exists(db, index)
    IN /\ Returned
       /\ req' = [op |-> "refresh", index |-> index, lifetime |-> new_lifetime,
                  end_of_life |-> new_end_of_life, mapping |-> Mapping(db, index),
                  pc |-> IF ok THEN 1 ELSE 0, ret |-> FALSE]
       /\ call' = IF ok THEN NoCall
                  ELSE Call("refresh", index, index, NoRequest, new_lifetime, new_end_of_life,
                            now, FALSE)
       /\ UNCHANGED <<db, now, nt, config, main, lib>>

\* the next apteryx_set_int of the refresh, which succeeds (ok) or fails; the second
\* one is not made when the first one fails
refresh_write(ok) ==
    LET write == refresh_writes(req.lifetime, req.end_of_life)[req.pc]
        last == req.pc = Len(refresh_writes(req.lifetime, req.end_of_life))
    IN /\ req.op = "refresh" /\ req.pc > 0
       /\ db' = IF ok THEN apteryx_set_int(db, req.index, write[1], write[2]) ELSE db
       /\ req' = [req EXCEPT !.pc = IF ok /\ ~last THEN @ + 1 ELSE 0, !.ret = ok]
       /\ call' = IF ok /\ ~last THEN call
                  ELSE Call("refresh", req.index, req.index, NoRequest, req.lifetime,
                            req.end_of_life, now, ok)
       /\ UNCHANGED <<now, nt, config, main, lib>>

\* pcp_mapping_find on the notification thread: the read of the node value
find_call(mapping_id) ==
    /\ nt.op # "find"
    /\ nt' = IF mapping_exists(db, mapping_id)
             THEN [op |-> "find", pc |-> 1, mapping |-> new_mapping(mapping_id)]
             ELSE [op |-> "notfound", pc |-> 0, mapping |-> new_mapping(mapping_id)]
    /\ UNCHANGED <<db, now, call, req, config, main, lib>>

\* pcp_mapping_find on the notification thread: the next read of a key
find_step(uninit) ==
    /\ nt.op = "find"
    /\ nt' = [op |-> IF nt.pc = FIND_READS THEN "found" ELSE "find",
              pc |-> IF nt.pc = FIND_READS THEN 0 ELSE nt.pc + 1,
              mapping |-> find_read(nt.mapping, db, nt.pc, uninit)]
    /\ UNCHANGED <<db, now, call, req, config, main, lib>>

StepAdd ==
    \E lifetime \in Lifetimes :
        /\ Returned
        /\ pcp_mapping_add(StepIndex, StepRequest, lifetime, now)
        /\ UNCHANGED <<freed, pending>>

StepRefresh ==
    \E new_lifetime \in Lifetimes, dev \in {0, 4} :
        /\ refresh_call(StepIndex, new_lifetime, now + new_lifetime + dev)
        /\ UNCHANGED <<freed, pending>>

StepRefreshWrite == \E ok \in BOOLEAN : refresh_write(ok) /\ UNCHANGED <<freed, pending>>

StepFind == find_call(StepIndex) /\ UNCHANGED <<freed, pending>>

StepFindRead == find_step(ADDR_LOOPBACK) /\ UNCHANGED <<freed, pending>>

NextSteps == StepAdd \/ StepRefresh \/ StepRefreshWrite \/ StepFind \/ StepFindRead

SpecSteps == Init /\ [][NextSteps]_vars

----------------------------------------------------------------------------
(* pcp_mapping_add one database write at a time: the request thread makes the    *)
(* fourteen writes of a create while the notification thread runs                *)
(* pcp_mapping_find one read at a time.                                          *)

\* the request thread is inside pcp_mapping_add, after its check of the index
Adding == req.op = "add" /\ req.pc > 0

\* pcp_mapping_add up to its first write: the index is chosen and looked up; req
\* holds the arguments of the add that writes, call the result of one that returned
add_call(index, a, lifetime) ==
    LET id == IF index = AUTO_INDEX THEN next_mapping_id(db) ELSE index
        fails == (index = AUTO_INDEX /\ id < 0) \/ mapping_exists(db, id)
    IN /\ Returned
       /\ fails \/ id <= MaxIndex \/ id >= MAXIMUM_MAPPING_ID - MaxIndex
       /\ req' = IF fails THEN req
                 ELSE [op |-> "add", index |-> id, lifetime |-> lifetime, end_of_life |-> 0,
                       mapping |-> [new_mapping(id) EXCEPT
                                       !.mapping_nonce = a.mapping_nonce,
                                       !.internal_ip = a.internal_ip,
                                       !.internal_port = a.internal_port,
                                       !.external_ip = a.external_ip,
                                       !.external_port = a.external_port,
                                       !.opcode = a.opcode,
                                       !.protocol = a.protocol],
                       pc |-> 1, ret |-> FALSE]
       /\ call' = IF fails THEN Call("add", index, id, a, lifetime, 0, now, FALSE) ELSE NoCall
       /\ UNCHANGED <<db, now, nt, config, main, lib>>

\* the order of the writes of add_write_node_first: the value of the node, then
\* the keys
NodeFirst(k) == IF k = 1 THEN 14 ELSE k - 1

\* as add_write, setting the value of the mapping node before the keys
add_write_node_first ==
    LET write == add_writes(req.index, req.mapping, req.lifetime, now, now)[NodeFirst(req.pc)]
        last == req.pc = 14
    IN /\ Adding
       /\ db' = apteryx_set(db, req.index, write[1], write[2])
       /\ req' = [req EXCEPT !.pc = IF last THEN 0 ELSE @ + 1, !.ret = last]
       /\ call' = IF last
                  THEN Call("add", req.index, req.index, NoRequest, req.lifetime, 0, now, TRUE)
                  ELSE call
       /\ UNCHANGED <<now, nt, config, main, lib>>

\* the next apteryx_set of pcp_mapping_add, the value of the node being the last;
\* time (NULL) is read when its write is made; true is returned after the last one
add_write ==
    LET write == add_writes(req.index, req.mapping, req.lifetime, now, now)[req.pc]
        last == req.pc = Len(add_writes(req.index, req.mapping, req.lifetime, now, now))
    IN /\ Adding
       /\ db' = apteryx_set(db, req.index, write[1], write[2])
       /\ req' = [req EXCEPT !.pc = IF last THEN 0 ELSE @ + 1, !.ret = last]
       /\ call' = IF last
                  THEN Call("add", req.index, req.index, NoRequest, req.lifetime, 0, now, TRUE)
                  ELSE call
       /\ UNCHANGED <<now, nt, config, main, lib>>

CreateAdd ==
    \E lifetime \in Lifetimes :
        /\ add_call(StepIndex, StepRequest, lifetime)
        /\ UNCHANGED <<freed, pending>>

CreateAddWrite == add_write /\ UNCHANGED <<freed, pending>>

\* pcp_mapping_delete between two finds of the notification thread
CreateDelete ==
    /\ Returned
    /\ nt.op # "find"
    /\ pcp_mapping_delete(StepIndex)
    /\ UNCHANGED <<freed, pending>>

CreateTick == Tick /\ UNCHANGED <<freed, pending>>

NextCreate ==
    \/ CreateAdd
    \/ CreateAddWrite
    \/ CreateDelete
    \/ CreateTick
    \/ StepFind
    \/ StepFindRead

SpecCreate == Init /\ [][NextCreate]_vars

(* The create and the refresh one write at a time under a watch: a program that  *)
(* has registered both mapping callbacks, the notifications of the writes, and   *)
(* pcp_mapping_changed on the notification thread. No mapping is removed: every  *)
(* notification is one of the writes of a create or of a refresh.                *)

\* the notification of a write below the path of a mapping: of the node for its
\* value, of the key for a key
change_of(index, key) ==
    IF key = SELF_KEY THEN MappingChange(index) ELSE KeyChange(index, key)

\* whether a watch on MAPPING_PATH "/" is called for the key of a mapping as well as
\* for its node is decided by Apteryx: the change of a key is raised or not, the
\* change of the node is raised
raises(index, key, deep) ==
    IF key = SELF_KEY \/ deep THEN raised({change_of(index, key)}) ELSE {}

ChangedRegisterCb ==
    /\ Returned
    /\ saved_cbs.null
    /\ register_cb_call(REQUEST, AllCallbacks)

ChangedAdd ==
    /\ RequestIdle
    /\ add_call(StepIndex, StepRequest, AllocLifetime)
    /\ UNCHANGED <<freed, pending>>

ChangedAddWrite ==
    \E deep \in BOOLEAN :
        LET key == add_writes(req.index, req.mapping, req.lifetime, now, now)[req.pc][1]
        IN /\ Adding
           /\ pending' = pending \cup raises(req.index, key, deep)
           /\ Cardinality(pending') <= MaxPending
           /\ add_write
           /\ UNCHANGED freed

ChangedRefresh ==
    /\ RequestIdle
    /\ refresh_call(StepIndex, AllocLifetime, now + AllocLifetime)
    /\ UNCHANGED <<freed, pending>>

ChangedRefreshWrite ==
    \E deep \in BOOLEAN :
        LET key == refresh_writes(req.lifetime, req.end_of_life)[req.pc][1]
        IN /\ req.op = "refresh" /\ req.pc > 0
           /\ pending' = pending \cup raises(req.index, key, deep)
           /\ Cardinality(pending') <= MaxPending
           /\ refresh_write(TRUE)
           /\ UNCHANGED freed

NextChanged ==
    \/ ChangedRegisterCb
    \/ WatchRegisterCbLock
    \/ WatchRegisterCbAssign
    \/ WatchRegisterCbUnlock
    \/ ChangedAdd
    \/ ChangedAddWrite
    \/ ChangedRefresh
    \/ ChangedRefreshWrite
    \/ WatchMappingChanged
    \/ WatchMappingChangedLock
    \/ WatchMappingChangedDispatch
    \/ WatchMappingChangedUnlock

SpecChanged == Init /\ [][NextChanged]_vars

----------------------------------------------------------------------------
(* Properties of the identifier allocation (SpecAlloc) *)

AutoAddSucceeded(c) == c.op = "add" /\ c.index = AUTO_INDEX /\ c.ret

SetMax(S) == CHOOSE m \in S : \A x \in S : x <= m

\* C1: no two live mappings share an index, neither the index pcp_mapping_find
\* reports nor the index stored under the mapping's index key, in every state
\* reached by add (auto or explicit index), refresh, delete and deleteall.
C1_UniqueIndex ==
    \A p, q \in Live(db) :
        p # q => /\ Mapping(db, p).index # Mapping(db, q).index
                 /\ apteryx_get_int(db, p, INDEX_KEY) # apteryx_get_int(db, q, INDEX_KEY)

C1_Witness ==
    /\ call.op = "add" /\ call.ret
    /\ \E p, q \in Live(db) : p # q /\ p = call.id /\ call.index = AUTO_INDEX /\ q = 15

\* C2: an add with the auto sentinel that succeeds gives the new mapping an index
\* that is a multiple of ten and greater than every index live at the allocation,
\* explicit indexes that are not multiples of ten included.
C2_AutoIndexAboveLive ==
    [][AutoAddSucceeded(call') =>
          /\ call'.id % 10 = 0
          /\ call'.id \in Live(db') \ Live(db)
          /\ \A i \in Live(db) : call'.id > i]_vars

C2_Witness == AutoAddSucceeded(call) /\ call.id = 20 /\ 15 \in Live(db)

\* C3 (as claimed): next_mapping_id is (max + 11) - ((max + 11) mod 10) with max the
\* greatest live index, or 0 when the store is empty.
C3_Claimed ==
    LET max == IF Live(db) = {} THEN 0 ELSE SetMax(Live(db))
    IN next_mapping_id(db) = (max + 11) - ((max + 11) % 10)

\* C4: an index freed by pcp_mapping_delete is not returned by the auto allocation
\* while a mapping with a higher index is live.
C4_NoReuseBelowLive ==
    [][AutoAddSucceeded(call') =>
          ~(call'.id \in freed /\ \E j \in Live(db) : j > call'.id)]_vars

C4_Witness ==
    /\ AutoAddSucceeded(call)
    /\ \E i \in freed : i \notin Live(db) /\ \E j \in Live(db) \ {call.id} : j > i

\* C5: an add with an explicit index that names a live mapping fails and changes
\* no field of any mapping.
C5_ConflictChangesNothing ==
    [][(call'.op = "add" /\ call'.index # AUTO_INDEX /\ mapping_exists(db, call'.index)) =>
          (~call'.ret /\ db' = db)]_vars

C5_Witness ==
    /\ call.op = "add" /\ call.index = 15 /\ ~call.ret
    /\ Live(db) = {10, 15}
    /\ Mapping(db, 15).mapping_nonce # call.a.mapping_nonce

\* C11: pcp_mapping_delete on a live index returns success, after it find on that
\* index finds nothing and every other mapping is as before; on an index that is
\* not live it returns failure and the store is as before.
C11_DeleteContract ==
    [][call'.op = "delete" =>
          IF mapping_exists(db, call'.index)
          THEN /\ call'.ret
               /\ ~mapping_exists(db', call'.index)
               /\ Live(db') = Live(db) \ {call'.index}
               /\ \A j \in Live(db') : db'[j] = db[j] /\ Mapping(db', j) = Mapping(db, j)
          ELSE /\ ~call'.ret
               /\ db' = db]_vars

C11_Witness ==
    /\ call.op = "delete" /\ call.ret
    /\ call.index = 10
    /\ Live(db) = {15}

\* C12 (as claimed): a delete of an index that is not live (never created, or
\* deleted before) reports no error.
C12_Claimed ==
    [][(call'.op = "delete" /\ ~mapping_exists(db, call'.index)) => call'.ret]_vars

\* C12 (amended): delete is idempotent in its effect, not in its result: whatever
\* the index, the store after the call is the store before it without that index,
\* and the call returns success exactly when the index was live, so a delete of an
\* index never created or already deleted returns failure.
C12_Amended ==
    [][call'.op = "delete" =>
          /\ db' = [j \in (DOMAIN db) \ {call'.index} |-> db[j]]
          /\ call'.ret <=> call'.index \in Live(db)]_vars

C12_Witness ==
    /\ call.op = "delete" /\ ~call.ret
    /\ call.index \in freed
    /\ Live(db) # {}

\* C16 (as claimed): a refresh or a delete changes the store only when the caller
\* presents the nonce stored in the mapping.  Neither call takes a nonce: what the
\* caller presents is what the call record holds, the empty request.
C16_Claimed ==
    [][(call'.op \in {"refresh", "delete"} /\ db' # db) =>
          call'.a.mapping_nonce = Mapping(db, call'.index).mapping_nonce]_vars

\* C17 (as claimed): every mapping in the store has a non-negative index, also
\* after pcp_mapping_add with an explicit negative index other than -1.
C17_Claimed ==
    \A id \in Live(db) :
        Mapping(db, id).index >= 0 /\ apteryx_get_int(db, id, INDEX_KEY) >= 0

----------------------------------------------------------------------------
(* Properties of the lease times (Spec) *)

Abs(x) == IF x < 0 THEN -x ELSE x

\* C6 (as claimed): after a successful add at time now, find on the new index returns
\* the arguments, start_of_life = now and end_of_life = now + lifetime, also when
\* the clock advances during the add.
C6_Claimed ==
    (call.op = "add" /\ call.ret) =>
        /\ mapping_exists(db, call.id)
        /\ Mapping(db, call.id) =
              [index |-> call.id,
               mapping_nonce |-> call.a.mapping_nonce,
               internal_ip |-> call.a.internal_ip,
               internal_port |-> call.a.internal_port,
               external_ip |-> call.a.external_ip,
               external_port |-> call.a.external_port,
               lifetime |-> call.lifetime,
               start_of_life |-> call.at,
               end_of_life |-> call.at + call.lifetime,
               opcode |-> call.a.opcode,
               protocol |-> call.a.protocol]

\* C7 (as claimed): every live mapping has end_of_life = start_of_life + lifetime.
C7_Claimed ==
    \A id \in Live(db) :
        Mapping(db, id).end_of_life = Mapping(db, id).start_of_life + Mapping(db, id).lifetime

\* C7 (amended): every live mapping has end_of_life >= start_of_life + lifetime - 3;
\* a refresh moves end_of_life to within 3 seconds of the time of the refresh plus the
\* new lifetime and leaves start_of_life at the time of the creation.
C7_Amended ==
    \A id \in Live(db) :
        /\ Mapping(db, id).end_of_life >=
              Mapping(db, id).start_of_life + Mapping(db, id).lifetime - 3
        /\ Mapping(db, id).start_of_life <= now
        /\ (call.op = "refresh" /\ call.ret /\ call.id = id) =>
              /\ Abs(Mapping(db, id).end_of_life - (call.at + Mapping(db, id).lifetime)) <= 3
              /\ Mapping(db, id).lifetime = call.lifetime

C7_Witness ==
    /\ call.op = "refresh" /\ call.ret
    /\ call.at > Mapping(db, call.id).start_of_life
    /\ call.end_of_life = call.at + call.lifetime - 3

\* C8: refresh returns success exactly when the mapping is live and the end of life
\* argument is within 3 seconds of now + new_lifetime; 3 is accepted, 4 is rejected.
C8_RefreshTolerance ==
    [][call'.op = "refresh" =>
          (call'.ret <=> /\ mapping_exists(db, call'.index)
                         /\ Abs(call'.end_of_life - (now + call'.lifetime)) <= 3)]_vars

C8_Witness ==
    /\ call.op = "refresh" /\ call.ret
    /\ call.end_of_life - (call.at + call.lifetime) = 3

\* C9: a successful refresh sets lifetime and end_of_life of the mapping and changes
\* nothing else of it and nothing of any other mapping; a refresh that fails because
\* the mapping is missing or the tolerance check fails changes nothing.
C9_RefreshFrame ==
    [][call'.op = "refresh" =>
          IF call'.ret
          THEN /\ DOMAIN db' = DOMAIN db
               /\ \A j \in (DOMAIN db) \ {call'.id} : db'[j] = db[j]
               /\ DOMAIN db'[call'.id] = DOMAIN db[call'.id]
               /\ \A key \in (DOMAIN db[call'.id]) \ {LIFETIME_KEY, END_OF_LIFE_KEY} :
                      db'[call'.id][key] = db[call'.id][key]
               /\ Mapping(db', call'.id) =
                      [Mapping(db, call'.id) EXCEPT !.lifetime = call'.lifetime,
                                                     !.end_of_life = call'.end_of_life]
          ELSE db' = db]_vars

C9_Witness ==
    /\ call.op = "refresh" /\ call.ret
    /\ Cardinality(Live(db)) = 2
    /\ call.at > Mapping(db, call.id).start_of_life
    /\ call.lifetime = 0

\* C13 (as claimed): pcp_mapping_getall returns one entry for each live mapping and
\* no other entry, each as find returns it, in strictly ascending order of index.
C13_Claimed ==
    call.op = "getall" =>
        LET list == call.value
        IN /\ Len(list) = Cardinality(Live(db))
           /\ {list[i].index : i \in 1 .. Len(list)} = Live(db)
           /\ \A i \in 1 .. Len(list) : list[i] = Mapping(db, list[i].index)
           /\ \A i, j \in 1 .. Len(list) : i < j => list[i].index < list[j].index

\* C14 (as claimed): remaining_lifetime_get returns 0 when now >= end_of_life and
\* end_of_life - now when now < end_of_life; the result is never negative and never
\* exceeds end_of_life - now.
C14_Claimed ==
    (call.op = "remaining_lifetime" /\ mapping_exists(db, call.index)) =>
        /\ call.at >= call.end_of_life => call.value = 0
        /\ call.at < call.end_of_life => call.value = call.end_of_life - call.at
        /\ call.value >= 0
        /\ call.value <= call.end_of_life - call.at

\* C14 (amended): remaining_lifetime_get returns 0 when now >= end_of_life and
\* end_of_life - now when now < end_of_life; the result is never negative and never
\* exceeds end_of_life - now while now <= end_of_life (past end_of_life the result, 0,
\* is greater than end_of_life - now, which is negative).
C14_Amended ==
    (call.op = "remaining_lifetime" /\ mapping_exists(db, call.index)) =>
        /\ call.at >= call.end_of_life => call.value = 0
        /\ call.at < call.end_of_life => call.value = call.end_of_life - call.at
        /\ call.value >= 0
        /\ call.at <= call.end_of_life => call.value <= call.end_of_life - call.at

C14_Witness ==
    /\ call.op = "remaining_lifetime" /\ mapping_exists(db, call.index)
    /\ call.at < call.end_of_life
    /\ call.value < Mapping(db, call.index).lifetime

\* the node id holds a mapping whose end of life is not after t
Expired(d, id, t) ==
    HasValue(d, id, SELF_KEY) /\ apteryx_get_int(d, id, END_OF_LIFE_KEY) <= t

\* C15: no step other than a delete or a deleteall removes a mapping, the passage
\* of time in particular; a mapping whose end of life has passed is returned by find
\* and by getall, makes an add with its index fail, and lies below the index the
\* allocator gives out.
C15_PassiveExpiry ==
    [][/\ (\E id \in DOMAIN db : id \notin DOMAIN db' \/ db'[id] # db[id]) =>
              call'.op \in {"delete", "deleteall", "refresh"}
       /\ (\E id \in DOMAIN db : id \notin DOMAIN db') => call'.op \in {"delete", "deleteall"}
       /\ \A id \in DOMAIN db :
              Expired(db, id, now) =>
                 /\ (call'.op = "find" /\ call'.index = id) =>
                        call'.value = <<Mapping(db, id)>>
                 /\ call'.op = "getall" =>
                        \E i \in 1 .. Len(call'.value) : call'.value[i] = Mapping(db, id)
                 /\ (call'.op = "add" /\ call'.index = id) => (~call'.ret /\ db' = db)
                 /\ (call'.op = "add" /\ call'.index = AUTO_INDEX /\ call'.ret) =>
                        call'.id > id]_vars

C15_Witness ==
    /\ call.op = "find" /\ call.value # NullMapping
    /\ call.value[1].end_of_life < call.at
    /\ call.value[1].lifetime = 2

----------------------------------------------------------------------------
(* Properties of the request processing of pcpd (SpecPcpd) *)

\* the iteration of main that ends in the primed state received a whole request of
\* the given packet type
Handled(type) ==
    /\ main' # main
    /\ main'.n = PCP_MAP_REQUEST_SIZE
    /\ get_packet_type(main'.request.data) = type

\* the iteration of main that ends in the primed state sent one response, with the
\* given result code
Answered(result) ==
    /\ Len(main'.sent) = 1
    /\ get_packet_type(main'.sent[1]) \in {MAP_RESPONSE, PEER_RESPONSE}
    /\ main'.sent[1].result_code = result

\* C18 (as claimed): a MAP request whose version is not 2 is answered with the
\* result code UNSUPP_VERSION and lifetime 0, and the mapping store stays as it is.
C18_Claimed ==
    [][(Handled(MAP_REQUEST) /\ main'.request.data.version # PCP_VERSION) =>
          /\ Answered(UNSUPP_VERSION)
          /\ ntohl(main'.sent[1].lifetime) = 0
          /\ db' = db]_vars

\* C19 (as claimed): a MAP request received while MAP support is disabled, and a
\* PEER request received while PEER support is disabled, is answered with the
\* result code UNSUPP_OPCODE.
C19_Claimed ==
    [][((Handled(MAP_REQUEST) /\ ~config.map_support) \/
        (Handled(PEER_REQUEST) /\ ~config.peer_support)) =>
          Answered(UNSUPP_OPCODE)]_vars

\* C20 (as claimed): every datagram received, whatever its packet type, version and
\* length and whatever the configuration, has exactly one response by the time main
\* is back at recvfrom, with the matching result code (UNSUPP_VERSION for a version
\* other than 2); PEER requests are processed as MAP requests are.
C20_Claimed ==
    [][main' # main =>
          /\ Len(main'.sent) = 1
          /\ get_packet_type(main'.sent[1]) \in {MAP_RESPONSE, PEER_RESPONSE}
          /\ (main'.n = PCP_MAP_REQUEST_SIZE /\ main'.request.data.version # PCP_VERSION) =>
                 main'.sent[1].result_code = UNSUPP_VERSION]_vars

\* the iteration of main that ends in the primed state received a datagram shorter
\* than a MAP request
ReceivedShort ==
    /\ main' # main
    /\ main'.n < PCP_MAP_REQUEST_SIZE

\* C21 (as claimed): a datagram shorter than a MAP request is rejected: it gets no
\* SUCCESS response, and nothing of the response comes from bytes of the buffer
\* beyond the length received (no response is built from them).
C21_Claimed ==
    [][ReceivedShort =>
          \A i \in 1 .. Len(main'.sent) : main'.sent[i].result_code # SUCCESS]_vars

\* the iteration of main that ends in the primed state received a whole MAP request
\* of version 2 while MAP support was enabled
Accepted ==
    /\ Handled(MAP_REQUEST)
    /\ main'.request.data.version = PCP_VERSION
    /\ config.map_support

Clamp(x, lo, hi) == IF x < lo THEN lo ELSE IF x > hi THEN hi ELSE x

\* C22 (as claimed): the response to an accepted MAP request with a requested
\* lifetime other than 0 carries a lifetime within [min_mapping_lifetime,
\* max_mapping_lifetime] of the configuration, the requested lifetime clamped into
\* that range.
C22_Claimed ==
    [][(Accepted /\ ntohl(main'.request.data.lifetime) # 0) =>
          /\ Len(main'.sent) = 1
          /\ ntohl(main'.sent[1].lifetime) >= config.min_mapping_lifetime
          /\ ntohl(main'.sent[1].lifetime) <= config.max_mapping_lifetime
          /\ ntohl(main'.sent[1].lifetime) =
                 Clamp(ntohl(main'.request.data.lifetime), config.min_mapping_lifetime,
                       config.max_mapping_lifetime)]_vars

\* C23 (as claimed): an accepted MAP request with requested lifetime 0 is answered
\* with SUCCESS and lifetime 0, whether a matching mapping is stored or not.
C23_Claimed ==
    [][(Accepted /\ ntohl(main'.request.data.lifetime) = 0) =>
          /\ Answered(SUCCESS)
          /\ ntohl(main'.sent[1].lifetime) = 0]_vars

----------------------------------------------------------------------------
(* Properties of the callback section (SpecWatch, SpecNotify) *)

\* the thread is between its pthread_mutex_lock and its pthread_mutex_unlock, where
\* it reads saved_cbs, calls through it or assigns it
InSection(t) == th[t].pc \in {"assign", "dispatch", "unlock"}

\* C24: saved_cbs is read, called through and assigned only by a thread that holds
\* callback_lock, in pcp_register_cb, pcp_load_config, pcp_config_changed and
\* pcp_mapping_changed; the two threads are never both in that section, and a
\* thread that has returned from any of the four functions does not hold the mutex.
C24_LockDiscipline ==
    /\ \A t \in Threads : InSection(t) => callback_lock = t
    /\ ~(InSection(REQUEST) /\ InSection(NOTIFICATION))
    /\ \A t \in Threads : th[t].pc \in {"idle", "lock", "write"} => callback_lock # t
    /\ (\A t \in Threads : th[t].pc \in {"idle", "write"}) => callback_lock = NoThread

\* the notification thread calls through saved_cbs while the request thread waits
\* for the mutex to replace it
C24_Witness ==
    /\ th[NOTIFICATION].fn = "pcp_mapping_changed" /\ th[NOTIFICATION].pc = "unlock"
    /\ th[NOTIFICATION].invoked # <<>>
    /\ th[REQUEST].fn = "pcp_register_cb" /\ th[REQUEST].pc = "lock"
    /\ callback_lock = NOTIFICATION

\* the mapping a successful add stores in this specification
StepMapping ==
    find_result(ApplyWrites(EmptyDb, StepIndex,
                            add_writes(StepIndex, StepRequest, AllocLifetime, StartTime,
                                       StartTime)), StepIndex)

\* the notification thread has just called the callback named, with the index and
\* the mapping given
Notified(name, index, mapping) ==
    /\ th[NOTIFICATION].fn = "pcp_mapping_changed"
    /\ th[NOTIFICATION].invoked = <<Invocation(name, FALSE, IntToU32(0), index, mapping)>>

\* the step of pcp_mapping_changed in which it calls through saved_cbs
MappingDispatch ==
    /\ th[NOTIFICATION].fn = "pcp_mapping_changed"
    /\ th[NOTIFICATION].pc = "dispatch"
    /\ th'[NOTIFICATION].pc = "unlock"

\* C25 (as claimed): after every successful create the mapping-created callback is
\* eventually called with the fields of the mapping stored, after every successful
\* delete the mapping-deleted callback is eventually called with the index, and
\* every mapping notification handled calls exactly one of the two callbacks:
\* mapping-created if the index is live when it is handled, mapping-deleted if not.
C25_Claimed ==
    /\ (call.op = "add" /\ call.ret) ~> Notified(NEW_PCP_MAPPING, StepIndex, StepMapping)
    /\ (call.op = "delete" /\ call.ret) ~>
           Notified(DELETE_PCP_MAPPING, StepIndex, NullMapping)
    /\ [][MappingDispatch =>
             /\ Len(th'[NOTIFICATION].invoked) = 1
             /\ th'[NOTIFICATION].invoked[1].name =
                    IF mapping_exists(db, th[NOTIFICATION].index) THEN NEW_PCP_MAPPING
                    ELSE DELETE_PCP_MAPPING]_vars

\* C25 (amended): the mapping callbacks are called by pcp_mapping_changed only,
\* which looks the index of the notification up when it starts to handle it and
\* then calls at most one callback: mapping-created with the fields found if the
\* index was found and that callback is registered, mapping-deleted with the index
\* if it was not found and that callback is registered.
C25_Amended ==
    [][/\ (th[NOTIFICATION].pc = "idle" /\ th'[NOTIFICATION].fn = "pcp_mapping_changed") =>
              th'[NOTIFICATION].mapping = find_result(db, th'[NOTIFICATION].index)
       /\ MappingDispatch =>
              LET found == th[NOTIFICATION].mapping
                  index == th[NOTIFICATION].index
                  registered(name) == ~saved_cbs.null /\ name \in saved_cbs.fields
              IN th'[NOTIFICATION].invoked =
                     IF found # NullMapping /\ registered(NEW_PCP_MAPPING)
                     THEN <<Invocation(NEW_PCP_MAPPING, FALSE, IntToU32(0), index, found)>>
                     ELSE IF found = NullMapping /\ registered(DELETE_PCP_MAPPING)
                     THEN <<Invocation(DELETE_PCP_MAPPING, FALSE, IntToU32(0), index,
                                       NullMapping)>>
                     ELSE <<>>
       /\ \A t \in Threads :
              \A i \in 1 .. Len(th'[t].invoked) :
                  th'[t].invoked[i].name \in {NEW_PCP_MAPPING, DELETE_PCP_MAPPING} =>
                      /\ t = NOTIFICATION
                      /\ th'[t].fn = "pcp_mapping_changed"
                      /\ th'[t].pc = "unlock"]_vars

\* a mapping created and deleted before its notification was handled: the
\* notification thread has called mapping-deleted, the request thread is idle and
\* no notification waits
C25_Witness ==
    /\ Notified(DELETE_PCP_MAPPING, StepIndex, NullMapping)
    /\ call.op = "delete" /\ call.ret
    /\ pending = {}

----------------------------------------------------------------------------
(* Properties of the configuration and the mappings in one database (SpecConfig) *)

\* the step is a pcp_mapping_deleteall that returns true, called by the client or
\* by pcp_deinit on SIGINT or SIGTERM
DeleteAllReturned ==
    /\ call'.op = "deleteall" /\ call'.ret
    /\ call' # call \/ db' # db \/ th' # th

\* C26: after a pcp_mapping_deleteall that succeeds, on SIGINT and SIGTERM too, no
\* mapping is live (pcp_mapping_getall is empty and pcp_mapping_find fails for
\* every index), the next index allocated is 10 and the configuration is as it was.
C26_DeleteAll ==
    [][DeleteAllReturned =>
          /\ Live(db') = {}
          /\ \A paths \in SearchOrders(db') : pcp_mapping_getall(db', paths) = <<>>
          /\ \A index \in LeaseIndexes \cup Indexes \cup ExtremeIndexes :
                 find_result(db', index) = NullMapping
          /\ next_mapping_id(db') = 10
          /\ conf' = conf
          /\ (signal_handler(SIGINT) \/ signal_handler(SIGTERM)) =>
                 th'[REQUEST] = ThExited]_vars

\* pcpd has exited on a signal received while the configuration held the defaults
C26_Witness ==
    /\ th[REQUEST] = ThExited
    /\ call.op = "deleteall" /\ call.ret
    /\ Live(db) = {}
    /\ pcp_initialized_get(conf)
    /\ max_mapping_lifetime_get(conf) = IntToU32(DEFAULT_MAX_MAPPING_LIFETIME)

\* the value of a setting in the database, or none
Setting(c, key) == IF key \in DOMAIN c THEN <<c[key]>> ELSE <<>>

\* the settings config_set_default leaves alone
KeptKeys == {PCP_ENABLED_KEY, PCP_INITIALIZED_KEY, STARTUP_EPOCH_TIME_KEY}

\* C30: config_set_default resets the five support flags, the minimum and maximum
\* mapping lifetime and the PREFER_FAILURE rate limit to their defaults, and leaves
\* pcp_enabled, pcp_initialized, startup_epoch_time and every mapping as they were.
C30_SetDefaultFrame ==
    [][call'.op = "config_set_default" =>
          /\ map_support_get(conf') = DEFAULT_MAP_SUPPORT
          /\ peer_support_get(conf') = DEFAULT_PEER_SUPPORT
          /\ third_party_support_get(conf') = DEFAULT_THIRD_PARTY_SUPPORT
          /\ proxy_support_get(conf') = DEFAULT_PROXY_SUPPORT
          /\ upnp_igd_pcp_iwf_support_get(conf') = DEFAULT_UPNP_IGD_PCP_IWF_SUPPORT
          /\ min_mapping_lifetime_get(conf') = IntToU32(DEFAULT_MIN_MAPPING_LIFETIME)
          /\ max_mapping_lifetime_get(conf') = IntToU32(DEFAULT_MAX_MAPPING_LIFETIME)
          /\ prefer_failure_req_rate_limit_get(conf') =
                 IntToU32(DEFAULT_PREFER_FAILURE_REQ_RATE_LIMIT)
          /\ \A key \in KeptKeys : Setting(conf', key) = Setting(conf, key)
          /\ db' = db]_vars

\* config_set_default has returned with pcpd disabled, the startup time recorded
\* and a mapping live
C30_Witness ==
    /\ call.op = "config_set_default"
    /\ Setting(conf, PCP_ENABLED_KEY) = <<0>>
    /\ startup_epoch_time_get(conf) = IntToU32(StartTime)
    /\ max_mapping_lifetime_get(conf) = IntToU32(DEFAULT_MAX_MAPPING_LIFETIME)
    /\ Live(db) # {}

----------------------------------------------------------------------------
(* Properties of the store on a failing database (SpecFail) *)

\* every key of the mapping has a value
Complete(d, id) ==
    \A i \in 1 .. 14 : HasValue(d, id, add_writes(id, NoRequest, 0, 0, 0)[i][1])

\* C27 (as claimed): a failure of the database is returned: a pcp_mapping_add that
\* returns true has made all of its writes, a pcp_mapping_delete that returns true
\* has pruned the mapping, and pcp_mapping_find never finds a mapping only a part
\* of which was written.
C27_Claimed ==
    [][/\ (call'.op = "add" /\ call'.ret /\ call' # call) =>
              /\ call'.id \in Live(db')
              /\ Complete(db', call'.id)
       /\ (call'.op = "delete" /\ call'.ret /\ call' # call) => call'.id \notin Live(db')
       /\ \A id \in Live(db') : Complete(db', id)]_vars

----------------------------------------------------------------------------
(* Properties of the single database accesses (SpecSteps) *)

\* the mapping m shows the new lifetime of the refresh of the request thread
\* together with the end of life from before that refresh
HalfRefreshed(m) ==
    /\ req.op = "refresh"
    /\ m.index = req.index
    /\ req.lifetime # req.mapping.lifetime
    /\ req.end_of_life # req.mapping.end_of_life
    /\ m.lifetime = req.lifetime
    /\ m.end_of_life = req.mapping.end_of_life

\* C10 (as claimed): no pcp_mapping_find on the notification thread returns, and no
\* refresh that has returned leaves behind, a mapping with the new lifetime and the
\* old end of life.
C10_Claimed ==
    /\ nt.op = "found" => ~HalfRefreshed(nt.mapping)
    /\ (req.op = "refresh" /\ req.pc = 0 /\ mapping_exists(db, req.index)) =>
          ~HalfRefreshed(Mapping(db, req.index))

\* the two situations of C10, both of which are reached: a find that read between
\* the two writes of a refresh that went on to succeed, and a refresh that returned
\* failure after its second write failed
C10_FindBetweenWrites ==
    nt.op = "found" /\ HalfRefreshed(nt.mapping) /\ req.pc = 0 /\ req.ret

C10_SecondWriteFailed ==
    req.op = "refresh" /\ req.pc = 0 /\ ~req.ret /\ HalfRefreshed(Mapping(db, req.index))

\* C28 (as claimed): from a greatest live index in 0 .. INT_MAX, next_mapping_id
\* returns a positive multiple of ten above it and not above MAXIMUM_MAPPING_ID, or
\* it returns -1 and pcp_mapping_add with the auto sentinel fails and leaves the
\* store unchanged.
C28_Claimed ==
    [][(call'.op = "add" /\ call'.index = AUTO_INDEX) =>
          LET max == current_highest_index(db)
              id == next_mapping_id(db)
          IN \/ /\ id > 0 /\ id % 10 = 0
                /\ id > max /\ id <= MAXIMUM_MAPPING_ID
             \/ /\ id = -1
                /\ ~call'.ret /\ db' = db]_vars

\* the true distance between a and b, where b may have kept its carry, is more
\* than 3
MoreThan3Apart(a, b) ==
    \/ U32Less(WideAdd(a, IntToU32(3)), b)
    \/ U32Less(WideAdd(b, IntToU32(3)), a)

\* C29 (as claimed): for all u_int32_t values of new_lifetime and new_end_of_life
\* pcp_mapping_refresh_lifetime rejects the refresh when new_end_of_life is truly
\* more than 3 seconds away from now + new_lifetime, and a refresh with a very large
\* lifetime (2^31 or more) never stores an end of life that is already in the past.
C29_Claimed ==
    [][call'.op = "refresh" =>
          LET t == IntToU32(now)
              new_lifetime == IntToU32(call'.lifetime)
              new_end_of_life == IntToU32(call'.end_of_life)
          IN /\ MoreThan3Apart(new_end_of_life, WideAdd(t, new_lifetime)) =>
                   ~call'.ret /\ db' = db
             /\ (call'.ret /\ new_lifetime[1] >= HALF \div 2) =>
                   ~U32Less(new_end_of_life, t)]_vars

----------------------------------------------------------------------------
(* Properties of pcpd's copy of the configuration (SpecCache, SpecDeliver) *)

\* the field of config for the key holds what the getter of the key reads
CacheHolds(cfg, c, key) ==
    CASE key = PCP_ENABLED_KEY -> cfg.pcp_enabled = pcp_enabled_get(c)
      [] key = MAP_SUPPORT_KEY -> cfg.map_support = map_support_get(c)
      [] key = PEER_SUPPORT_KEY -> cfg.peer_support = peer_support_get(c)
      [] key = THIRD_PARTY_SUPPORT_KEY ->
             cfg.third_party_support = third_party_support_get(c)
      [] key = PROXY_SUPPORT_KEY -> cfg.proxy_support = proxy_support_get(c)
      [] key = UPNP_IGD_PCP_IWF_SUPPORT_KEY ->
             cfg.upnp_igd_pcp_iwf_support = upnp_igd_pcp_iwf_support_get(c)
      [] key = MIN_MAPPING_LIFETIME_KEY ->
             IntToU32(cfg.min_mapping_lifetime) = min_mapping_lifetime_get(c)
      [] key = MAX_MAPPING_LIFETIME_KEY ->
             IntToU32(cfg.max_mapping_lifetime) = max_mapping_lifetime_get(c)
      [] key = PREFER_FAILURE_REQ_RATE_LIMIT_KEY ->
             IntToU32(cfg.prefer_failure_req_rate_limit) =
                 prefer_failure_req_rate_limit_get(c)

NineKeys == {PolicyKeys[i] : i \in 1 .. Len(PolicyKeys)}

\* the request thread takes a step of pcp_load_config that is at pc
LoadConfigStep(pc) ==
    /\ th[REQUEST].fn = "pcp_load_config" /\ th[REQUEST].pc = pc
    /\ th'[REQUEST] # th[REQUEST]

\* a write of pcp_load_config calls no callback, and the last one leaves the
\* database initialised and enabled with the eight defaults and nothing else changed
LoadConfigWrites ==
    /\ config' = config /\ th'[REQUEST].invoked = <<>>
    /\ (th'[REQUEST].pc = "idle") =>
           /\ pcp_initialized_get(conf') /\ pcp_enabled_get(conf')
           /\ conf' = config_set_default(conf')
           /\ Setting(conf', STARTUP_EPOCH_TIME_KEY) =
                  Setting(conf, STARTUP_EPOCH_TIME_KEY)

\* the callbacks called are those registered, each once, with the value stored
LoadConfigCalls ==
    LET invoked == th'[REQUEST].invoked
    IN /\ \A i \in 1 .. Len(invoked) :
              /\ invoked[i].name \in saved_cbs.fields
              /\ invoked[i] = policy_callback(conf, invoked[i].name)
       /\ \A key \in NineKeys \cap saved_cbs.fields :
              Cardinality({i \in 1 .. Len(invoked) : invoked[i].name = key}) = 1

Waits(notifications, key) ==
    \E n \in notifications : n.tree = "config" /\ n.key = key

\* the notification thread has called the callback of pcp_config_changed for key
ConfigHandled(key) ==
    /\ th[NOTIFICATION].fn = "pcp_config_changed" /\ th[NOTIFICATION].key = key
    /\ th[NOTIFICATION].pc = "dispatch" /\ th'[NOTIFICATION].pc = "unlock"

\* C32: pcp_config_changed reads the setting from the database when it calls the
\* callback, so in whatever order and however late the notifications of the writes
\* are handled, config holds the stored value of a setting when a notification of it
\* has been handled, and from then on for as long as none of its notifications waits.
C32_CacheFollows ==
    [][\A key \in NineKeys :
          /\ ConfigHandled(key) => CacheHolds(config', conf', key)
          /\ (watches /\ CacheHolds(config, conf, key)
                /\ ~CacheHolds(config', conf', key)) => Waits(pending', key)]_vars

\* a notification handled late: the setting was written twice, the first notification
\* was handled after the second write, and the second one still waits
C32_Witness ==
    /\ th[NOTIFICATION].fn = "pcp_config_changed" /\ th[NOTIFICATION].pc = "unlock"
    /\ th[NOTIFICATION].key = MAP_SUPPORT_KEY
    /\ th[NOTIFICATION].value # conf[MAP_SUPPORT_KEY]
    /\ Waits(pending, MAP_SUPPORT_KEY)
    /\ CacheHolds(config, conf, MAP_SUPPORT_KEY)

----------------------------------------------------------------------------
(* Properties of the registered handle (SpecWatch) *)

\* C33 (as claimed): no function reads a field of saved_cbs before it has compared
\* saved_cbs with NULL, so no thread ends the process by a read through the null
\* pointer, whatever handle is registered and whether or not one is.
C33_Claimed == \A t \in Threads : th[t].pc # "crashed"

----------------------------------------------------------------------------
(* Properties of a create made one write at a time (SpecCreate) *)

\* the mapping under index id as pcp_mapping_add has written it: every key and
\* the value of the node are set, and the keys hold the arguments of the call
Written(d, id, r) ==
    /\ Complete(d, id)
    /\ Mapping(d, id).index = id
    /\ Mapping(d, id).mapping_nonce = r.mapping.mapping_nonce
    /\ Mapping(d, id).internal_port = r.mapping.internal_port
    /\ Mapping(d, id).external_port = r.mapping.external_port
    /\ Mapping(d, id).lifetime = r.lifetime
    /\ Mapping(d, id).opcode = r.mapping.opcode
    /\ Mapping(d, id).protocol = r.mapping.protocol

\* a pcp_mapping_find of the notification thread starts or makes a read
FindActs == nt' # nt

C34_Found ==
    /\ req.op = "add" /\ req.pc = 0 /\ req.ret
    /\ nt.op = "found" /\ Written(db, req.index, req)
    /\ nt.mapping = Mapping(db, req.index)
----------------------------------------------------------------------------
(* Properties of the mapping callbacks under a create made one write at a time   *)
(* (SpecChanged)                                                                 *)

\* the notification thread calls delete_pcp_mapping (index) in this step
DeleteInvoked(index) ==
    /\ th'[NOTIFICATION].invoked # th[NOTIFICATION].invoked
    /\ \E i \in 1 .. Len(th'[NOTIFICATION].invoked) :
          /\ th'[NOTIFICATION].invoked[i].name = DELETE_PCP_MAPPING
          /\ th'[NOTIFICATION].invoked[i].index = index

\* C35 (as claimed): delete_pcp_mapping is called for an index only after its
\* mapping has been live and was removed: never for an index a pcp_mapping_add is
\* writing, and never for the index of a live mapping.
C35_Claimed ==
    [][\A index \in {StepIndex} :
          DeleteInvoked(index) =>
              /\ ~(Adding /\ req.index = index)
              /\ index \notin Live(db)]_vars

\* delete_pcp_mapping called for the index of a create in progress
C35_DeletedWhileAdding ==
    /\ Adding /\ req.index = StepIndex
    /\ th[NOTIFICATION].fn = "pcp_mapping_changed"
    /\ th[NOTIFICATION].invoked # <<>>
    /\ th[NOTIFICATION].invoked[1].name = DELETE_PCP_MAPPING
    /\ th[NOTIFICATION].invoked[1].index = StepIndex
====
